---- MODULE Spec2Model ----
(***************************************************************************)
(* Model of jtbaird/prism-pull, src/src/prism_session.py: the CSV          *)
(* validator (_validate_csv), the partitioner (_generate_partitions) and   *)
(* the request driver (submit_coordinates) of PrismSession.                *)
(*                                                                         *)
(* Text is a sequence of one-character strings.  A file is the sequence of *)
(* its physical lines, each with its line terminator; csv.reader and       *)
(* csv.writer are the operators csv_reader_next and csv_writer_row of the  *)
(* default "excel" dialect.  A path is a text.  A character above U+007F   *)
(* is written as the hexadecimal digits of its UTF-8 bytes ("C3A9" is      *)
(* U+00E9), so that the module is ASCII and the bytes of a text in storage *)
(* can be counted.                                                         *)
(***************************************************************************)
EXTENDS Integers, Sequences, FiniteSets, TLC

(***************************************************************************)
(* Bounds of the model.                                                    *)
(***************************************************************************)
\* longest file built from every combination of SampleLines
MaxSmallLen == 2
\* how many times in a row the caller runs the validator or the partitioner
MaxRuns == 2
\* the long files have up to MaxParts full partitions, plus or minus a row
MaxParts == 2
\* the single malformed line of a scenario file sits at row 1..MaxBadPos
MaxBadPos == 4

(***************************************************************************)
(* Program constants.                                                      *)
(***************************************************************************)
\* if row_count > 500
RowLimit == 500
\* if len(rows) == 500
PartitionSize == 500
\* if len(row) != 3
NumColumns == 3
\* if len(row[2]) > 12
MaxLabelLen == 12

(***************************************************************************)
(* Helpers on sequences.  An optional value is a sequence of length 0 or   *)
(* 1.                                                                      *)
(***************************************************************************)
None == <<>>
Some(v) == <<v>>

Range(s) == {s[i] : i \in 1..Len(s)}

\* index of the first element of s that is in C, 0 when there is none
FirstIndex(s, C) ==
    IF \E i \in 1..Len(s) : s[i] \in C
    THEN CHOOSE i \in 1..Len(s) : s[i] \in C /\ \A j \in 1..(i-1) : s[j] \notin C
    ELSE 0

\* index of the last element of s that is not in C, 0 when there is none
LastIndexNotIn(s, C) ==
    IF \E i \in 1..Len(s) : s[i] \notin C
    THEN CHOOSE i \in 1..Len(s) : s[i] \notin C /\ \A j \in (i+1)..Len(s) : s[j] \in C
    ELSE 0

\* the concatenation of ss[lo..hi], split in halves
RECURSIVE FlattenRange(_, _, _)
FlattenRange(ss, lo, hi) ==
    IF lo > hi THEN <<>>
    ELSE IF lo = hi THEN ss[lo]
    ELSE LET mid == (lo + hi) \div 2
         IN FlattenRange(ss, lo, mid) \o FlattenRange(ss, mid + 1, hi)

Flatten(ss) == FlattenRange(ss, 1, Len(ss))

\* the decimal digits of a natural number, as text: str(n)
RECURSIVE DecChars(_)
DecChars(n) ==
    LET d == <<"0", "1", "2", "3", "4", "5", "6", "7", "8", "9">>[(n % 10) + 1]
    IN IF n < 10 THEN <<d>> ELSE Append(DecChars(n \div 10), d)

(***************************************************************************)
(* float(value) of Python, as far as accepting or rejecting a string.      *)
(***************************************************************************)
Digit == {"0", "1", "2", "3", "4", "5", "6", "7", "8", "9"}
\* the ASCII whitespace float() strips from both ends: space, \t, \n, \x0b,
\* \f and \r
Whitespace == {" ", "\t", "\n", "", "\f", "\r"}

\* the characters above U+007F that str.isspace() holds for, each written as
\* the hexadecimal digits of its UTF-8 bytes: U+0085, U+00A0, U+1680,
\* U+2000..U+200A, U+2028, U+2029, U+202F, U+205F, U+3000
UnicodeSpace ==
    {"C285", "C2A0", "E19A80", "E28080", "E28081", "E28082", "E28083",
      "E28084", "E28085", "E28086", "E28087", "E28088", "E28089", "E2808A",
      "E280A8", "E280A9", "E280AF", "E2819F", "E38080" }

\* the decimal digits above U+007F (category Nd of Unicode 14.0.0, the
\* database of the interpreter), by their value: DecimalDigits[d + 1] holds
\* the characters of value d
DecimalDigits ==
    << { "D9A0", "DBB0", "DF80", "E0A5A6", "E0A7A6", "E0A9A6", "E0ABA6",
         "E0ADA6", "E0AFA6", "E0B1A6", "E0B3A6", "E0B5A6", "E0B7A6",
         "E0B990", "E0BB90", "E0BCA0", "E18180", "E18290", "E19FA0",
         "E1A090", "E1A586", "E1A790", "E1AA80", "E1AA90", "E1AD90",
         "E1AEB0", "E1B180", "E1B190", "EA98A0", "EAA390", "EAA480",
         "EAA790", "EAA7B0", "EAA990", "EAAFB0", "EFBC90", "F09092A0",
         "F090B4B0", "F09181A6", "F09183B0", "F09184B6", "F0918790",
         "F0918BB0", "F0919190", "F0919390", "F0919990", "F0919B80",
         "F0919CB0", "F091A3A0", "F091A590", "F091B190", "F091B590",
         "F091B6A0", "F096A9A0", "F096AB80", "F096AD90", "F09D9F8E",
         "F09D9F98", "F09D9FA2", "F09D9FAC", "F09D9FB6", "F09E8580",
         "F09E8BB0", "F09EA590", "F09FAFB0" },
       { "D9A1", "DBB1", "DF81", "E0A5A7", "E0A7A7", "E0A9A7", "E0ABA7",
         "E0ADA7", "E0AFA7", "E0B1A7", "E0B3A7", "E0B5A7", "E0B7A7",
         "E0B991", "E0BB91", "E0BCA1", "E18181", "E18291", "E19FA1",
         "E1A091", "E1A587", "E1A791", "E1AA81", "E1AA91", "E1AD91",
         "E1AEB1", "E1B181", "E1B191", "EA98A1", "EAA391", "EAA481",
         "EAA791", "EAA7B1", "EAA991", "EAAFB1", "EFBC91", "F09092A1",
         "F090B4B1", "F09181A7", "F09183B1", "F09184B7", "F0918791",
         "F0918BB1", "F0919191", "F0919391", "F0919991", "F0919B81",
         "F0919CB1", "F091A3A1", "F091A591", "F091B191", "F091B591",
         "F091B6A1", "F096A9A1", "F096AB81", "F096AD91", "F09D9F8F",
         "F09D9F99", "F09D9FA3", "F09D9FAD", "F09D9FB7", "F09E8581",
         "F09E8BB1", "F09EA591", "F09FAFB1" },
       { "D9A2", "DBB2", "DF82", "E0A5A8", "E0A7A8", "E0A9A8", "E0ABA8",
         "E0ADA8", "E0AFA8", "E0B1A8", "E0B3A8", "E0B5A8", "E0B7A8",
         "E0B992", "E0BB92", "E0BCA2", "E18182", "E18292", "E19FA2",
         "E1A092", "E1A588", "E1A792", "E1AA82", "E1AA92", "E1AD92",
         "E1AEB2", "E1B182", "E1B192", "EA98A2", "EAA392", "EAA482",
         "EAA792", "EAA7B2", "EAA992", "EAAFB2", "EFBC92", "F09092A2",
         "F090B4B2", "F09181A8", "F09183B2", "F09184B8", "F0918792",
         "F0918BB2", "F0919192", "F0919392", "F0919992", "F0919B82",
         "F0919CB2", "F091A3A2", "F091A592", "F091B192", "F091B592",
         "F091B6A2", "F096A9A2", "F096AB82", "F096AD92", "F09D9F90",
         "F09D9F9A", "F09D9FA4", "F09D9FAE", "F09D9FB8", "F09E8582",
         "F09E8BB2", "F09EA592", "F09FAFB2" },
       { "D9A3", "DBB3", "DF83", "E0A5A9", "E0A7A9", "E0A9A9", "E0ABA9",
         "E0ADA9", "E0AFA9", "E0B1A9", "E0B3A9", "E0B5A9", "E0B7A9",
         "E0B993", "E0BB93", "E0BCA3", "E18183", "E18293", "E19FA3",
         "E1A093", "E1A589", "E1A793", "E1AA83", "E1AA93", "E1AD93",
         "E1AEB3", "E1B183", "E1B193", "EA98A3", "EAA393", "EAA483",
         "EAA793", "EAA7B3", "EAA993", "EAAFB3", "EFBC93", "F09092A3",
         "F090B4B3", "F09181A9", "F09183B3", "F09184B9", "F0918793",
         "F0918BB3", "F0919193", "F0919393", "F0919993", "F0919B83",
         "F0919CB3", "F091A3A3", "F091A593", "F091B193", "F091B593",
         "F091B6A3", "F096A9A3", "F096AB83", "F096AD93", "F09D9F91",
         "F09D9F9B", "F09D9FA5", "F09D9FAF", "F09D9FB9", "F09E8583",
         "F09E8BB3", "F09EA593", "F09FAFB3" },
       { "D9A4", "DBB4", "DF84", "E0A5AA", "E0A7AA", "E0A9AA", "E0ABAA",
         "E0ADAA", "E0AFAA", "E0B1AA", "E0B3AA", "E0B5AA", "E0B7AA",
         "E0B994", "E0BB94", "E0BCA4", "E18184", "E18294", "E19FA4",
         "E1A094", "E1A58A", "E1A794", "E1AA84", "E1AA94", "E1AD94",
         "E1AEB4", "E1B184", "E1B194", "EA98A4", "EAA394", "EAA484",
         "EAA794", "EAA7B4", "EAA994", "EAAFB4", "EFBC94", "F09092A4",
         "F090B4B4", "F09181AA", "F09183B4", "F09184BA", "F0918794",
         "F0918BB4", "F0919194", "F0919394", "F0919994", "F0919B84",
         "F0919CB4", "F091A3A4", "F091A594", "F091B194", "F091B594",
         "F091B6A4", "F096A9A4", "F096AB84", "F096AD94", "F09D9F92",
         "F09D9F9C", "F09D9FA6", "F09D9FB0", "F09D9FBA", "F09E8584",
         "F09E8BB4", "F09EA594", "F09FAFB4" },
       { "D9A5", "DBB5", "DF85", "E0A5AB", "E0A7AB", "E0A9AB", "E0ABAB",
         "E0ADAB", "E0AFAB", "E0B1AB", "E0B3AB", "E0B5AB", "E0B7AB",
         "E0B995", "E0BB95", "E0BCA5", "E18185", "E18295", "E19FA5",
         "E1A095", "E1A58B", "E1A795", "E1AA85", "E1AA95", "E1AD95",
         "E1AEB5", "E1B185", "E1B195", "EA98A5", "EAA395", "EAA485",
         "EAA795", "EAA7B5", "EAA995", "EAAFB5", "EFBC95", "F09092A5",
         "F090B4B5", "F09181AB", "F09183B5", "F09184BB", "F0918795",
         "F0918BB5", "F0919195", "F0919395", "F0919995", "F0919B85",
         "F0919CB5", "F091A3A5", "F091A595", "F091B195", "F091B595",
         "F091B6A5", "F096A9A5", "F096AB85", "F096AD95", "F09D9F93",
         "F09D9F9D", "F09D9FA7", "F09D9FB1", "F09D9FBB", "F09E8585",
         "F09E8BB5", "F09EA595", "F09FAFB5" },
       { "D9A6", "DBB6", "DF86", "E0A5AC", "E0A7AC", "E0A9AC", "E0ABAC",
         "E0ADAC", "E0AFAC", "E0B1AC", "E0B3AC", "E0B5AC", "E0B7AC",
         "E0B996", "E0BB96", "E0BCA6", "E18186", "E18296", "E19FA6",
         "E1A096", "E1A58C", "E1A796", "E1AA86", "E1AA96", "E1AD96",
         "E1AEB6", "E1B186", "E1B196", "EA98A6", "EAA396", "EAA486",
         "EAA796", "EAA7B6", "EAA996", "EAAFB6", "EFBC96", "F09092A6",
         "F090B4B6", "F09181AC", "F09183B6", "F09184BC", "F0918796",
         "F0918BB6", "F0919196", "F0919396", "F0919996", "F0919B86",
         "F0919CB6", "F091A3A6", "F091A596", "F091B196", "F091B596",
         "F091B6A6", "F096A9A6", "F096AB86", "F096AD96", "F09D9F94",
         "F09D9F9E", "F09D9FA8", "F09D9FB2", "F09D9FBC", "F09E8586",
         "F09E8BB6", "F09EA596", "F09FAFB6" },
       { "D9A7", "DBB7", "DF87", "E0A5AD", "E0A7AD", "E0A9AD", "E0ABAD",
         "E0ADAD", "E0AFAD", "E0B1AD", "E0B3AD", "E0B5AD", "E0B7AD",
         "E0B997", "E0BB97", "E0BCA7", "E18187", "E18297", "E19FA7",
         "E1A097", "E1A58D", "E1A797", "E1AA87", "E1AA97", "E1AD97",
         "E1AEB7", "E1B187", "E1B197", "EA98A7", "EAA397", "EAA487",
         "EAA797", "EAA7B7", "EAA997", "EAAFB7", "EFBC97", "F09092A7",
         "F090B4B7", "F09181AD", "F09183B7", "F09184BD", "F0918797",
         "F0918BB7", "F0919197", "F0919397", "F0919997", "F0919B87",
         "F0919CB7", "F091A3A7", "F091A597", "F091B197", "F091B597",
         "F091B6A7", "F096A9A7", "F096AB87", "F096AD97", "F09D9F95",
         "F09D9F9F", "F09D9FA9", "F09D9FB3", "F09D9FBD", "F09E8587",
         "F09E8BB7", "F09EA597", "F09FAFB7" },
       { "D9A8", "DBB8", "DF88", "E0A5AE", "E0A7AE", "E0A9AE", "E0ABAE",
         "E0ADAE", "E0AFAE", "E0B1AE", "E0B3AE", "E0B5AE", "E0B7AE",
         "E0B998", "E0BB98", "E0BCA8", "E18188", "E18298", "E19FA8",
         "E1A098", "E1A58E", "E1A798", "E1AA88", "E1AA98", "E1AD98",
         "E1AEB8", "E1B188", "E1B198", "EA98A8", "EAA398", "EAA488",
         "EAA798", "EAA7B8", "EAA998", "EAAFB8", "EFBC98", "F09092A8",
         "F090B4B8", "F09181AE", "F09183B8", "F09184BE", "F0918798",
         "F0918BB8", "F0919198", "F0919398", "F0919998", "F0919B88",
         "F0919CB8", "F091A3A8", "F091A598", "F091B198", "F091B598",
         "F091B6A8", "F096A9A8", "F096AB88", "F096AD98", "F09D9F96",
         "F09D9FA0", "F09D9FAA", "F09D9FB4", "F09D9FBE", "F09E8588",
         "F09E8BB8", "F09EA598", "F09FAFB8" },
       { "D9A9", "DBB9", "DF89", "E0A5AF", "E0A7AF", "E0A9AF", "E0ABAF",
         "E0ADAF", "E0AFAF", "E0B1AF", "E0B3AF", "E0B5AF", "E0B7AF",
         "E0B999", "E0BB99", "E0BCA9", "E18189", "E18299", "E19FA9",
         "E1A099", "E1A58F", "E1A799", "E1AA89", "E1AA99", "E1AD99",
         "E1AEB9", "E1B189", "E1B199", "EA98A9", "EAA399", "EAA489",
         "EAA799", "EAA7B9", "EAA999", "EAAFB9", "EFBC99", "F09092A9",
         "F090B4B9", "F09181AF", "F09183B9", "F09184BF", "F0918799",
         "F0918BB9", "F0919199", "F0919399", "F0919999", "F0919B89",
         "F0919CB9", "F091A3A9", "F091A599", "F091B199", "F091B599",
         "F091B6A9", "F096A9A9", "F096AB89", "F096AD99", "F09D9F97",
         "F09D9FA1", "F09D9FAB", "F09D9FB5", "F09D9FBF", "F09E8589",
         "F09E8BB9", "F09EA599", "F09FAFB9" } >>

\* float(str) first rewrites the string: an ASCII character stays, a
\* space above U+007F becomes " ", a decimal digit its ASCII digit, and
\* anything else "?"
\* the values of a character as a decimal digit: one value, or none
ToDecimal(c) == {d \in 0..9 : c \in DecimalDigits[d + 1]}

\* the ASCII digit of a value, "?" where there is none
DigitOrMark(values) ==
    IF values = {} THEN "?"
    ELSE <<"0", "1", "2", "3", "4", "5", "6", "7", "8", "9">>[(CHOOSE d \in values : TRUE) + 1]

TransformChar(c) ==
    IF Len(c) = 1 THEN c
    ELSE IF c \in UnicodeSpace THEN " "
    ELSE DigitOrMark(ToDecimal(c))

TransformDecimalAndSpaceToASCII(s) == [i \in 1..Len(s) |-> TransformChar(s[i])]

\* str.lower on the letters of the alphabet in use
LowerChar(c) ==
    CASE c = "A" -> "a" [] c = "E" -> "e" [] c = "F" -> "f" [] c = "I" -> "i"
      [] c = "N" -> "n" [] c = "T" -> "t" [] c = "Y" -> "y" [] OTHER -> c

Lower(s) == [i \in 1..Len(s) |-> LowerChar(s[i])]

\* value.strip(): leading and trailing whitespace removed
Strip(s) ==
    LET a == FirstIndex(s, {s[i] : i \in 1..Len(s)} \ Whitespace)
        b == LastIndexNotIn(s, Whitespace)
    IN IF a = 0 THEN <<>> ELSE SubSeq(s, a, b)

\* digitpart: digits, with single underscores only between two digits
IsDigitPart(s) ==
    /\ Len(s) >= 1
    /\ \A i \in 1..Len(s) : s[i] \in Digit \cup {"_"}
    /\ \A i \in 1..Len(s) :
          s[i] = "_" => /\ i > 1 /\ i < Len(s)
                        /\ s[i-1] \in Digit /\ s[i+1] \in Digit

\* [digitpart] "." [digitpart], or digitpart alone; at least one digit
IsMantissa(s) ==
    LET p == FirstIndex(s, {"."})
        ip == SubSeq(s, 1, p - 1)
        fp == SubSeq(s, p + 1, Len(s))
    IN IF p = 0 THEN IsDigitPart(s)
       ELSE /\ (ip = <<>> \/ IsDigitPart(ip))
            /\ (fp = <<>> \/ IsDigitPart(fp))
            /\ ~(ip = <<>> /\ fp = <<>>)

DropSign(s) == IF Len(s) >= 1 /\ s[1] \in {"+", "-"} THEN Tail(s) ELSE s

\* "e" ["+" | "-"] digitpart, after the mantissa
IsNumber(s) ==
    LET p == FirstIndex(s, {"e"})
    IN IF p = 0 THEN IsMantissa(s)
       ELSE /\ IsMantissa(SubSeq(s, 1, p - 1))
            /\ IsDigitPart(DropSign(SubSeq(s, p + 1, Len(s))))

FloatWords == { <<"i", "n", "f">>, <<"n", "a", "n">>,
                <<"i", "n", "f", "i", "n", "i", "t", "y">> }

float_parses(value) ==
    LET body == DropSign(Lower(Strip(TransformDecimalAndSpaceToASCII(value))))
    IN body \in FloatWords \/ IsNumber(body)

\* is_float_string: True when float(value) does not raise ValueError
is_float_string(value) == float_parses(value)

(***************************************************************************)
(* Text files opened with newline="": iterating the file yields its        *)
(* physical lines, each with its terminator "\n", "\r\n" or "\r" (the last *)
(* line may have none), untranslated.                                      *)
(***************************************************************************)
CR == "\r"
LF == "\n"

\* a line the file iterator can yield: not empty, no line break before its end
IsPhysicalLine(line) ==
    /\ Len(line) >= 1
    /\ \A i \in 1..Len(line) :
          line[i] \in {CR, LF} =>
             \/ i = Len(line)
             \/ i = Len(line) - 1 /\ line[i] = CR /\ line[i + 1] = LF

IsTerminated(line) == Len(line) >= 1 /\ line[Len(line)] \in {CR, LF}

\* the lines are those of one text: only the last may be unterminated, and a
\* line ending in "\r" is not followed by one starting with "\n"
IsFile(lines) ==
    /\ \A i \in 1..Len(lines) : IsPhysicalLine(lines[i])
    /\ \A i \in 1..(Len(lines) - 1) :
          /\ IsTerminated(lines[i])
          /\ ~(lines[i][Len(lines[i])] = CR /\ lines[i + 1][1] = LF)

\* the physical lines of a text
RECURSIVE SplitLines(_, _, _)
SplitLines(text, i, line) ==
    IF i > Len(text)
    THEN IF line = <<>> THEN <<>> ELSE <<line>>
    ELSE IF text[i] = LF
    THEN <<Append(line, LF)>> \o SplitLines(text, i + 1, <<>>)
    ELSE IF text[i] = CR /\ i < Len(text) /\ text[i + 1] = LF
    THEN <<line \o <<CR, LF>> >> \o SplitLines(text, i + 2, <<>>)
    ELSE IF text[i] = CR
    THEN <<Append(line, CR)>> \o SplitLines(text, i + 1, <<>>)
    ELSE SplitLines(text, i + 1, Append(line, text[i]))

(***************************************************************************)
(* csv.reader and csv.writer, default dialect: delimiter ",", quotechar    *)
(* '"', doublequote, QUOTE_MINIMAL, lineterminator "\r\n", not strict, no  *)
(* escapechar.                                                             *)
(***************************************************************************)
Delimiter == ","
QuoteChar == "\""
\* the end-of-line mark the reader processes after the characters of a line
EOL == "EOL"

\* csv.field_size_limit()
field_size_limit == 131072

\* _csv.Error
csv_Error(msg, args) == [type |-> "_csv.Error", msg |-> msg, args |-> args]

\* the parser of a reader: its state, the field and the fields collected so
\* far, and the error it has raised
parse_reset == [state |-> "START_RECORD", field |-> <<>>, fields |-> <<>>, raised |-> None]

parse_save_field(st, state) ==
    [state |-> state, field |-> <<>>, fields |-> Append(st.fields, st.field),
     raised |-> st.raised]

\* a field that already holds field_size_limit characters takes no more
parse_add_char(st, c, state) ==
    IF Len(st.field) >= field_size_limit
    THEN [st EXCEPT !.raised = Some(csv_Error("field larger than field limit ({limit})",
                                              << field_size_limit >>))]
    ELSE [state |-> state, field |-> Append(st.field, c), fields |-> st.fields,
          raised |-> st.raised]

\* the end of a field at a line break or at the end of the line
parse_end_of_line(st, c) ==
    parse_save_field(st, IF c = EOL THEN "START_RECORD" ELSE "EAT_CRNL")

\* the reader's state machine on one character
parse_process_char(st, c) ==
    CASE st.state = "START_RECORD" /\ c = EOL -> st
      [] st.state = "START_RECORD" /\ c \in {CR, LF} -> [st EXCEPT !.state = "EAT_CRNL"]
      [] st.state = "START_FIELD" \/ (st.state = "START_RECORD" /\ c \notin {CR, LF, EOL}) ->
            IF c \in {CR, LF, EOL} THEN parse_end_of_line(st, c)
            ELSE IF c = QuoteChar THEN [st EXCEPT !.state = "IN_QUOTED_FIELD"]
            ELSE IF c = Delimiter THEN parse_save_field(st, "START_FIELD")
            ELSE parse_add_char(st, c, "IN_FIELD")
      [] st.state = "IN_FIELD" ->
            IF c \in {CR, LF, EOL} THEN parse_end_of_line(st, c)
            ELSE IF c = Delimiter THEN parse_save_field(st, "START_FIELD")
            ELSE parse_add_char(st, c, "IN_FIELD")
      [] st.state = "IN_QUOTED_FIELD" ->
            IF c = EOL THEN st
            ELSE IF c = QuoteChar THEN [st EXCEPT !.state = "QUOTE_IN_QUOTED_FIELD"]
            ELSE parse_add_char(st, c, "IN_QUOTED_FIELD")
      [] st.state = "QUOTE_IN_QUOTED_FIELD" ->
            IF c = QuoteChar THEN parse_add_char(st, c, "IN_QUOTED_FIELD")
            ELSE IF c = Delimiter THEN parse_save_field(st, "START_FIELD")
            ELSE IF c \in {CR, LF, EOL} THEN parse_end_of_line(st, c)
            ELSE parse_add_char(st, c, "IN_FIELD")
      [] OTHER ->  \* EAT_CRNL: a physical line has nothing after its line break
            IF c = EOL THEN [st EXCEPT !.state = "START_RECORD"] ELSE st

\* the characters lo..hi of one line, up to the first that raises; the
\* range is split in halves
RECURSIVE parse_chars(_, _, _, _)
parse_chars(st, line, lo, hi) ==
    IF st.raised # None \/ lo > hi THEN st
    ELSE IF lo = hi THEN parse_process_char(st, line[lo])
    ELSE LET mid == (lo + hi) \div 2
             left == parse_chars(st, line, lo, mid)
         IN parse_chars(left, line, mid + 1, hi)

\* the end-of-line mark, processed unless a character has raised
parse_eol(st) == IF st.raised # None THEN st ELSE parse_process_char(st, EOL)

\* the characters of one line from the i-th on, then the end-of-line mark
parse_line(st, line, i) == parse_eol(parse_chars(st, line, i, Len(line)))

\* next(reader) after line_num lines were read: lines are read until the
\* parser is back at the start of a record or raises; at the end of the
\* input an unfinished record is yielded, else the iteration stops (row is
\* None)
RECURSIVE csv_reader_next(_, _, _)
\* the parser after line line_num: it has raised, or a record is complete, or
\* the next line is read
csv_reader_after(lines, line_num, after) ==
    IF after.raised # None
    THEN [row |-> <<>>, line_num |-> line_num, raised |-> after.raised]
    ELSE IF after.state = "START_RECORD"
    THEN [row |-> <<after.fields>>, line_num |-> line_num, raised |-> None]
    ELSE csv_reader_next(lines, line_num, after)

csv_reader_next(lines, line_num, st) ==
    IF line_num >= Len(lines)
    THEN IF st.field # <<>> \/ st.state = "IN_QUOTED_FIELD"
         THEN [row |-> <<Append(st.fields, st.field)>>, line_num |-> line_num,
               raised |-> None]
         ELSE [row |-> <<>>, line_num |-> line_num, raised |-> None]
    ELSE csv_reader_after(lines, line_num + 1, parse_line(st, lines[line_num + 1], 1))

\* the rows read from lines lo..hi by a parser in state st, and the parser
\* at the end; nothing is read once the parser has raised; the fold over the
\* lines is split in halves
\* the parser after one line: a record is complete, or the parser goes on
csv_reader_line(after) ==
    IF after.raised = None /\ after.state = "START_RECORD"
    THEN [rows |-> <<after.fields>>, st |-> parse_reset]
    ELSE [rows |-> <<>>, st |-> after]

\* the rows of two stretches of lines read one after the other
csv_reader_both(left, right) == [rows |-> left.rows \o right.rows, st |-> right.st]

RECURSIVE csv_reader_fold(_, _, _, _)
\* the lines mid+1..hi, read after the lines before them
csv_reader_right(lines, mid, hi, left) ==
    csv_reader_both(left, csv_reader_fold(lines, mid + 1, hi, left.st))

csv_reader_fold(lines, lo, hi, st) ==
    IF st.raised # None \/ lo > hi THEN [rows |-> <<>>, st |-> st]
    ELSE IF lo = hi
    THEN csv_reader_line(parse_line(st, lines[lo], 1))
    ELSE csv_reader_right(lines, (lo + hi) \div 2, hi,
                          csv_reader_fold(lines, lo, (lo + hi) \div 2, st))

\* iterating csv.reader(lines) to its end: the rows it yields, and the error
\* that ends the iteration when it raises
csv_reader_end(lines, all) ==
    IF all.st.raised # None
    THEN [rows |-> all.rows, raised |-> all.st.raised]
    ELSE [rows |-> all.rows \o csv_reader_next(lines, Len(lines), all.st).row,
          raised |-> None]

csv_reader_all(lines) ==
    csv_reader_end(lines, csv_reader_fold(lines, 1, Len(lines), parse_reset))

\* every row the reader yields
csv_reader_rows(lines) == csv_reader_all(lines).rows

\* a field is quoted when it holds the delimiter, the quote or a line break
NeedsQuotes(field) == \E i \in 1..Len(field) : field[i] \in {Delimiter, QuoteChar, CR, LF}

QuoteField(field) ==
    LET doubled == Flatten([i \in 1..Len(field) |->
                       IF field[i] = QuoteChar THEN <<QuoteChar, QuoteChar>> ELSE <<field[i]>>])
    IN IF NeedsQuotes(field) THEN <<QuoteChar>> \o doubled \o <<QuoteChar>> ELSE field

RECURSIVE JoinFields(_)
JoinFields(fields) ==
    IF Len(fields) = 0 THEN <<>>
    ELSE IF Len(fields) = 1 THEN QuoteField(fields[1])
    ELSE QuoteField(fields[1]) \o <<Delimiter>> \o JoinFields(Tail(fields))

RECURSIVE JoinUnquoted(_)
JoinUnquoted(fields) ==
    IF Len(fields) = 0 THEN <<>>
    ELSE IF Len(fields) = 1 THEN fields[1]
    ELSE fields[1] \o <<Delimiter>> \o JoinUnquoted(Tail(fields))

lineterminator == <<CR, LF>>

\* the text csv.writer writes for one row; a lone empty field is written ""
csv_writer_row_unquoted(row) == JoinUnquoted(row) \o lineterminator

csv_writer_row(row) ==
    (IF Len(row) = 1 /\ row[1] = <<>> THEN <<QuoteChar, QuoteChar>> ELSE JoinFields(row))
        \o lineterminator

(***************************************************************************)
(* Inputs: the lines and the files the model is run on.                    *)
(***************************************************************************)
\* three columns, two floats, short label
LineGood == <<"1", ",", "2", ",", "a", "\n">>
\* label of exactly 12 characters
LineLabel12 == <<"-", "1", ".", "5", ",", "2", "e", "3", ",", "a", "b", "c", "d", "e", "f", "g", "h", "i", "j", "k", "l", "\n">>
\* quoted label holding the delimiter; inf and nan are floats; ends in "\r\n"
LineQuoted == <<" ", "i", "n", "f", " ", ",", "n", "a", "n", ",", "\"", "a", ",", "b", "\"", "\r", "\n">>
\* empty label
LineNoLabel == <<"4", "0", ".", "9", ",", "-", "1", "1", "2", ".", "2", ",", "\n">>
\* label of 13 characters
LineLabel13 == <<"1", ",", "2", ",", "a", "b", "c", "d", "e", "f", "g", "h", "i", "j", "k", "l", "m", "\n">>
\* first field is not a float
LineBadFirst == <<"a", "b", "c", ",", "-", "1", "1", "2", ".", "2", ",", "s", "i", "t", "e", "1", "\n">>
\* second field is empty, not a float
LineBadSecond == <<"1", ",", ",", "a", "\n">>
\* two columns
LineTwoCols == <<"1", ",", "2", "\n">>
\* four columns
LineFourCols == <<"1", ",", "2", ",", "a", ",", "b", "\n">>
\* blank line: csv.reader yields []
LineBlank == <<"\n">>
\* every field is bad
LineAllBad == <<"x", ",", "y", ",", "a", "b", "c", "d", "e", "f", "g", "h", "i", "j", "k", "l", "m", "\n">>

\* the quoted label is still open at the end of the line
LineOpenQuote == <<"1", ",", "2", ",", "\"", "a", "\n">>
\* open quoted label of 12 characters: the line break makes it 13
LineOpenLabel12 == <<"1", ",", "2", ",", "\"", "a", "b", "c", "d", "e", "f", "g", "h", "i", "j", "k", "l", "\n">>
\* closes a quoted field left open by the line before
LineCloseQuote == <<"b", "\"", "\n">>
\* no line terminator: the last line of a file only
LineUnterminated == <<"1", ",", "2", ",", "z">>

\* the label is U+00E9: one character, two bytes
LineAccent == <<"1", ",", "2", ",", "C3A9", "\n">>

GoodSampleLines == {LineGood, LineLabel12, LineQuoted, LineNoLabel, LineAccent}
BadSampleLines == {LineLabel13, LineBadFirst, LineBadSecond, LineTwoCols,
                   LineFourCols, LineBlank, LineAllBad}
\* lines whose rows depend on the lines around them
JoinedSampleLines == {LineOpenQuote, LineOpenLabel12, LineCloseQuote, LineUnterminated}
SampleLines == GoodSampleLines \cup BadSampleLines \cup JoinedSampleLines

\* the i-th line of a generated file: a valid row whose label is str(i)
GoodLine(i) == <<"1", ",", "2", ",">> \o DecChars(i) \o <<LF>>

\* every file of at most MaxSmallLen sample lines (the empty file included)
SmallFiles == {f \in UNION {[1..n -> SampleLines] : n \in 0..MaxSmallLen} : IsFile(f)}

\* valid files around the multiples of the partition size
LongLens == {k * PartitionSize + d : k \in 1..MaxParts, d \in {0, 1}}
LongFiles == {[i \in 1..n |-> GoodLine(i)] : n \in LongLens}

\* files with one malformed line at row k, valid lines around it
ScenarioFiles ==
    {[i \in 1..(MaxBadPos + 1) |-> IF i = k THEN b ELSE GoodLine(i)] :
        k \in 1..MaxBadPos, b \in BadSampleLines}

\* a file over the row limit whose first malformed line is past the limit
LongBadFiles ==
    {[i \in 1..(RowLimit + 2) |-> IF i = RowLimit + 1 THEN b ELSE GoodLine(i)] :
        b \in {LineLabel13}}

\* short valid files
ShortFiles == {[i \in 1..n |-> GoodLine(i)] : n \in 1..(MaxBadPos + 1)}

Files == SmallFiles \cup ShortFiles \cup LongFiles \cup ScenarioFiles \cup LongBadFiles


(***************************************************************************)
(* Exceptions, log records and driver events.                              *)
(* An exception or a log record is its message template and the values     *)
(* interpolated into it.                                                   *)
(***************************************************************************)
ValueError(msg) == [type |-> "ValueError", msg |-> msg, args |-> <<>>]
UnboundLocalError(name) == [type |-> "UnboundLocalError", msg |-> name, args |-> <<>>]

LogRecord(msg, args) == [msg |-> msg, args |-> args]

\* a call on the browser driver; arg is a sequence of strings
Event(call, arg) == [call |-> call, arg |-> arg]

BULK_URL == "https://prism.oregonstate.edu/explorer/bulk.php"
SINGLE_URL == "https://prism.oregonstate.edu/explorer/"

\* datetime.datetime.now().year
PresentYear == 2026

(***************************************************************************)
(* Date checks.                                                            *)
(***************************************************************************)
check_months(month) ==
    IF month < 1 \/ month > 12
    THEN Some(ValueError("Month must be between 1 and 12."))
    ELSE None

check_dates(date, month, year) ==
    LET is_leap_year == year % 4 = 0 IN
    IF is_leap_year /\ month = 2
    THEN IF date < 1 \/ date > 29
         THEN Some(ValueError("Date must be between 0 and 30 for February in a leap year."))
         ELSE None
    ELSE IF ~is_leap_year /\ month = 2
    THEN IF date < 1 \/ date > 28
         THEN Some(ValueError("Date must be between 0 and 29 for February in non leap year."))
         ELSE None
    ELSE IF month \in {4, 6, 9, 11}
    THEN IF date < 1 \/ date > 30
         THEN Some(ValueError("Date must be between 0 and 31 for this month."))
         ELSE None
    ELSE IF date < 1 \/ date > 31
         THEN Some(ValueError("Date must be between 0 and 32 for this month."))
         ELSE None

check_years(year) ==
    IF year < 1895 \/ year > PresentYear
    THEN Some([type |-> "ValueError", msg |-> "Year must be between 1895 and {present}.",
               args |-> <<PresentYear>>])
    ELSE None

\* the first exception of a sequence of checks, None when none raises
RECURSIVE FirstRaised(_)
FirstRaised(checks) ==
    IF checks = <<>> THEN None
    ELSE IF Head(checks) # None THEN Head(checks)
    ELSE FirstRaised(Tail(checks))

_validate_inputs_no_end_year(a) ==
    FirstRaised(<< check_dates(a.start_date, a.start_month, a.start_year),
                   check_dates(a.end_date, a.end_month, a.end_year),
                   check_months(a.start_month),
                   check_months(a.end_month),
                   check_years(a.start_year) >>)

_validate_inputs(a) ==
    FirstRaised(<< check_dates(a.start_date, a.start_month, a.start_year),
                   check_dates(a.end_date, a.end_month, a.end_year),
                   check_months(a.start_month),
                   check_months(a.end_month),
                   check_years(a.start_year),
                   check_years(a.end_year) >>)

(***************************************************************************)
(* Form filling: the driver events of each private method.                 *)
(***************************************************************************)
\* WebDriverWait(...).until(...) gives up: the element never came
TimeoutException(what, part) == [type |-> "TimeoutException", msg |-> what, args |-> part]

\* the steps of a method on the driver: a wait for an element, a call on an
\* element, a record logged, or a statement that raises
Wait(id) == [kind |-> "wait", what |-> id]
Do(event) == [kind |-> "do", what |-> event]
Info(record) == [kind |-> "info", what |-> record]
Raise(exception) == [kind |-> "raise", what |-> exception]

\* what the steps of one kind carry, in order
RECURSIVE StepsOf(_, _)
StepsOf(steps, kind) ==
    IF steps = <<>> THEN <<>>
    ELSE (IF Head(steps).kind = kind THEN << Head(steps).what >> ELSE <<>>)
         \o StepsOf(Tail(steps), kind)

\* the steps run before the first statement that raises
Reached(steps) ==
    LET r == {i \in 1..Len(steps) : steps[i].kind = "raise"}
    IN IF r = {} THEN Len(steps) ELSE (CHOOSE i \in r : \A j \in r : i <= j) - 1

\* the waits at which the driver may give up
Waits(steps) == {i \in 1..Reached(steps) : steps[i].kind = "wait"}

\* running the steps when the driver gives up at the wait of position k
\* (k = 0: at none): the driver events, the records logged and the exception
Run(steps, k) ==
    LET done == SubSeq(steps, 1, IF k = 0 THEN Reached(steps) ELSE k - 1)
    IN [events |-> StepsOf(done, "do"),
        log |-> StepsOf(done, "info"),
        raised |-> IF k # 0 THEN Some(TimeoutException(steps[k].what, <<>>))
                   ELSE IF Reached(steps) < Len(steps)
                   THEN Some(steps[Reached(steps) + 1].what)
                   ELSE None]

_set_coordinates_steps(latitude, longitude) ==
    << Wait("loc_method_coords"),
       Do(Event("click", <<"loc_method_coords">>)),
       Wait("loc_lat"),
       Wait("loc_lon"),
       Do(Event("clear", <<"loc_lat">>)),
       Do(Event("send_keys", <<"loc_lat", latitude>>)),
       Do(Event("clear", <<"loc_lon">>)),
       Do(Event("send_keys", <<"loc_lon", longitude>>)) >>

\* the driver events of _set_coordinates when every element comes
_set_coordinates(latitude, longitude) ==
    Run(_set_coordinates_steps(latitude, longitude), 0).events

\* the branch of the if/elif chain that assigns the element ids
DateBranch(a) ==
    IF a.is_30_year_monthly THEN "30_year_monthly"
    ELSE IF a.is_30_year_daily THEN "30_year_daily"
    ELSE IF a.is_annual THEN "annual"
    ELSE IF a.is_single_month THEN "single_month"
    ELSE IF a.is_daily THEN "daily"
    ELSE "default"

_set_date_range_steps(a) ==
    LET b == DateBranch(a)
        date_id == CASE b = "30_year_monthly" -> "tper_monthly_normals"
                     [] b = "30_year_daily" -> "tper_daily_normals"
                     [] b = "annual" -> "tper_yearly"
                     [] b = "single_month" -> "tper_onemonth"
                     [] b = "daily" -> "tper_daily"
                     [] OTHER -> "tper_monthly"
        start_month_id == CASE b = "single_month" -> "tper_onemonth_month"
                            [] b = "daily" -> "tper_daily_start_month"
                            [] OTHER -> "tper_monthly_start_month"
        start_year_id == CASE b = "annual" -> "tper_yearly_start_year"
                           [] b = "single_month" -> "tper_onemonth_start_year"
                           [] b = "daily" -> "tper_daily_start_year"
                           [] OTHER -> "tper_monthly_start_year"
        end_month_id == IF b = "daily" THEN "tper_daily_end_month" ELSE "tper_monthly_end_month"
        end_year_id == CASE b = "annual" -> "tper_yearly_end_year"
                         [] b = "single_month" -> "tper_onemonth_end_year"
                         [] b = "daily" -> "tper_daily_end_year"
                         [] OTHER -> "tper_monthly_end_year"
        \* start_date_id and end_date_id are assigned in the daily branch only
        dates_bound == b = "daily"
        click == << Wait(date_id), Do(Event("click", <<date_id>>)) >>
        years == << Wait(start_year_id),
                    Wait(end_year_id),
                    Info(LogRecord("Selecting years: {start_year} to {end_year}",
                                   <<a.start_year, a.end_year>>)),
                    Do(Event("select", <<start_year_id, ToString(a.start_year)>>)),
                    Do(Event("select", <<end_year_id, ToString(a.end_year)>>)) >>
        smonth == << Info(LogRecord("Selecting start month: {start_month}", <<a.start_month>>)),
                     Wait(start_month_id),
                     Do(Event("select", <<start_month_id, ToString(a.start_month)>>)) >>
        emonth == << Info(LogRecord("Selecting end month: {end_month}", <<a.end_month>>)),
                     Wait(end_month_id),
                     Do(Event("select", <<end_month_id, ToString(a.end_month)>>)) >>
        days == << Info(LogRecord("Selecting start date: {start_date} and end date: {end_date}",
                                  <<a.start_date, a.end_date>>)) >>
                \o IF dates_bound
                   THEN << Wait("tper_daily_start_date"),
                           Do(Event("select", <<"tper_daily_start_date", ToString(a.start_date)>>)),
                           Wait("tper_daily_end_date"),
                           Do(Event("select", <<"tper_daily_end_date", ToString(a.end_date)>>)) >>
                   ELSE << Raise(UnboundLocalError("start_date_id")) >>
    IN IF a.is_30_year_monthly \/ a.is_30_year_daily THEN click
       ELSE IF a.is_annual THEN click \o years
       ELSE IF a.is_single_month THEN click \o years \o smonth
       ELSE IF a.is_monthly THEN click \o years \o smonth \o emonth
       ELSE click \o years \o smonth \o emonth \o days

\* events, log records and exception of _set_date_range when every element comes
_set_date_range(a) == Run(_set_date_range_steps(a), 0)

\* the dictionaries of _set_data_settings, in insertion order
true_defaults == << <<"precipitation", "cvar_ppt">>, <<"mean_temp", "cvar_tmean">> >>
false_defaults == << <<"min_temp", "cvar_tmin">>, <<"max_temp", "cvar_tmax">>,
                     <<"min_vpd", "cvar_vpdmin">>, <<"max_vpd", "cvar_vpdmax">>,
                     <<"mean_dewpoint_temp", "cvar_tdmean">>,
                     <<"cloud_transmittance", "cvar_soltrans">>,
                     <<"solar_rad_horiz_sfc", "cvar_soltotal">>,
                     <<"solar_rad_sloped_sfc", "cvar_solslope">>,
                     <<"solar_rad_clear_sky", "cvar_solclear">> >>

\* one click per listed variable whose value is `on`
RECURSIVE ClicksWhere(_, _, _)
ClicksWhere(dict, a, on) ==
    IF dict = <<>> THEN <<>>
    ELSE (IF a[Head(dict)[1]] = on THEN << Event("click", <<Head(dict)[2]>>) >> ELSE <<>>)
         \o ClicksWhere(Tail(dict), a, on)

_set_data_settings_false_only(a) == ClicksWhere(false_defaults, a, TRUE)

\* the driver events of _set_data_settings when every element comes
_set_data_settings(a) ==
    ClicksWhere(true_defaults, a, FALSE) \o ClicksWhere(false_defaults, a, TRUE)

\* WebDriverWait(...).until(...) on the element, then the call on it
WaitThenDo(events) ==
    Flatten([i \in 1..Len(events) |-> << Wait(events[i].arg[1]), Do(events[i]) >>])

_set_data_settings_steps(a) == WaitThenDo(_set_data_settings(a))

_upload_csv(path) == << Event("send_keys", <<"locations_file">> \o path) >>

_upload_csv_steps(path) == WaitThenDo(_upload_csv(path))

_submit_and_download == << Event("click", <<"submit_button">>),
                           Event("click", <<"download_button">>) >>

_submit_and_download_steps == WaitThenDo(_submit_and_download)

_submit_and_download_bulk == << Event("click", <<"submitdown_button">>) >>

_submit_and_download_bulk_steps == WaitThenDo(_submit_and_download_bulk)

(***************************************************************************)
(* The arguments of a call.                                                *)
(***************************************************************************)
SourcePath == <<"c", "o", "o", "r", "d", "s", ".", "c", "s", "v">>

\* the defaults of submit_coordinates; is_bulk_request has none
DefaultArgs ==
    [ latitude |-> "40.9473", longitude |-> "-112.217",
      csv_path |-> <<"/", "d", "u", "m", "m", "y", "/", "p", "a", "t", "h", "/", "t", "o", "/", "c", "s", "v">>,
      precipitation |-> TRUE, min_temp |-> FALSE, mean_temp |-> TRUE,
      max_temp |-> FALSE, min_vpd |-> FALSE, max_vpd |-> FALSE,
      mean_dewpoint_temp |-> FALSE, cloud_transmittance |-> FALSE,
      solar_rad_horiz_sfc |-> FALSE, solar_rad_sloped_sfc |-> FALSE,
      solar_rad_clear_sky |-> FALSE,
      is_30_year_monthly |-> FALSE, is_30_year_daily |-> FALSE, is_annual |-> FALSE,
      is_single_month |-> FALSE, is_monthly |-> TRUE, is_daily |-> FALSE,
      start_date |-> 1, start_month |-> 1, start_year |-> 2020,
      end_date |-> 1, end_month |-> 12, end_year |-> 2020 ]

\* the arguments of submit_coordinates(is_bulk_request), the others defaulted
SubmitCall(is_bulk_request) == ("is_bulk_request" :> is_bulk_request) @@ DefaultArgs

\* the arguments of a method called with csv_path alone
PathArgs(csv_path) == [DefaultArgs EXCEPT !.csv_path = csv_path]

\* the argument records submit_coordinates is called with
SubmitArgs ==
    { [SubmitCall(TRUE) EXCEPT !.csv_path = SourcePath],
      SubmitCall(TRUE),
      SubmitCall(FALSE),
      [SubmitCall(TRUE) EXCEPT !.csv_path = SourcePath, !.end_month = 13],
      [SubmitCall(TRUE) EXCEPT !.csv_path = SourcePath, !.is_monthly = FALSE, !.is_daily = TRUE,
                          !.min_temp = TRUE],
      [SubmitCall(TRUE) EXCEPT !.csv_path = SourcePath, !.is_monthly = FALSE] }

(***************************************************************************)
(* State.                                                                  *)
(***************************************************************************)
VARIABLES
    fs,               \* storage: path -> the lines of the file at that path
    pc,               \* position of the running call
    op,               \* the method the caller invoked
    args,             \* its arguments
    handles,          \* the open files: records [path, mode]
    reader,           \* number of rows the open csv.reader has yielded
    line_num,         \* reader.line_num: number of lines the reader has read
    row_count,        \* _validate_csv: row_count
    partition_number, \* _generate_partitions: partition_number
    rows,             \* _generate_partitions: rows
    partitions,       \* _generate_partitions: partitions; submit_coordinates: partitions
    needs_partition,  \* submit_coordinates: needs_partition (None while unbound)
    part_idx,         \* submit_coordinates: position of the for loop over partitions
    driver,           \* the calls made on the browser driver, in order
    log,              \* the records passed to the logger (info, warning), in order
    calls,            \* the methods submit_coordinates has called, and os.remove, in order
    retval,           \* the tuple of values returned to the caller (empty until it returns)
    raised,           \* the exception propagated to the caller (None if none)
    prev              \* the outcomes of the caller's earlier calls: [retval, fs]

vars == << fs, pc, op, args, handles, reader, line_num, row_count, partition_number, rows,
           partitions, needs_partition, part_idx, driver, log, calls, retval, raised,
           prev >>

\* the locals of the validator, of the partitioner and of submit_coordinates
reader_vars == << reader, line_num >>
validator_vars == << row_count >>
partitioner_vars == << partition_number, rows, partitions >>

Handle(path, mode) == [path |-> path, mode |-> mode]

\* leaving a `with open(...)` block, normally or by an exception, closes the file
Close_leak(hs, h) == hs

Close(hs, h) == hs \ {h}

\* a call of a method, as a mock of it would record it
Call(name, arg) == [name |-> name, arg |-> arg]

\* open(path, "w") ... writer.writerows(rows): the file is created or truncated
WriteFile_append(storage, path, lines) ==
    [p \in (DOMAIN storage) \cup {path} |->
        IF p # path THEN storage[p]
        ELSE IF path \in DOMAIN storage THEN storage[path] \o lines ELSE lines]

WriteFile(storage, path, lines) ==
    [p \in (DOMAIN storage) \cup {path} |-> IF p = path THEN lines ELSE storage[p]]

\* os.remove(path)
RemoveFile(storage, path) == [p \in (DOMAIN storage) \ {path} |-> storage[p]]

\* writer.writerows(rows): the lines of the text written
csv_writerows(rs) == Flatten([i \in 1..Len(rs) |-> SplitLines(csv_writer_row(rs[i]), 1, <<>>)])

\* f"{csv_path}_{partition_number}.csv"
OutputPath_zero_based(csv_path, n) ==
    csv_path \o <<"_">> \o DecChars(n - 1) \o <<".", "c", "s", "v">>

OutputPath_in_place(csv_path, n) == csv_path

OutputPath(csv_path, n) == csv_path \o <<"_">> \o DecChars(n) \o <<".", "c", "s", "v">>

\* open() or a write raising: the operating system refused
OSError(what, path) == [type |-> "OSError", msg |-> what, args |-> path]

\* the number of bytes of a character in UTF-8, the encoding of the files
ByteLen(c) == IF Len(c) = 1 THEN 1 ELSE Len(c) \div 2

\* the number of bytes of the characters lo..hi of a line
RECURSIVE LineSize(_, _, _)
LineSize(line, lo, hi) ==
    IF lo > hi THEN 0
    ELSE IF lo = hi THEN ByteLen(line[lo])
    ELSE LET mid == (lo + hi) \div 2
         IN LineSize(line, lo, mid) + LineSize(line, mid + 1, hi)

\* the number of bytes of lines[lo..hi]
RECURSIVE FileSize(_, _, _)
FileSize(lines, lo, hi) ==
    IF lo > hi THEN 0
    ELSE IF lo = hi THEN LineSize(lines[lo], 1, Len(lines[lo]))
    ELSE LET mid == (lo + hi) \div 2
         IN FileSize(lines, lo, mid) + FileSize(lines, mid + 1, hi)

\* the first k of the bytes of a character, 0 < k < ByteLen(c): not a character
PartOfChar(c, k) == ToString(k) \o "/" \o c

\* the first n bytes of the characters lo..hi of a line: whole characters,
\* then the part of the character the n-th byte falls in
RECURSIVE TakeBytes(_, _, _, _)
TakeBytes(line, lo, hi, n) ==
    IF n <= 0 \/ lo > hi THEN <<>>
    ELSE IF lo = hi
    THEN IF n >= ByteLen(line[lo]) THEN << line[lo] >> ELSE << PartOfChar(line[lo], n) >>
    ELSE LET mid == (lo + hi) \div 2
             left == LineSize(line, lo, mid)
         IN IF n <= left THEN TakeBytes(line, lo, mid, n)
            ELSE SubSeq(line, lo, mid) \o TakeBytes(line, mid + 1, hi, n - left)

\* where a write that fails may stop: after b bytes of line i, short of the
\* whole, for every line and every such number of bytes
PartialWrites(lines) ==
    UNION { { << i, b >> : b \in 0..(LineSize(lines[i], 1, Len(lines[i])) - 1) } :
            i \in 1..Len(lines) }

\* the lines in storage after the write stopped at << i, b >>
WrittenLines(lines, at) ==
    SubSeq(lines, 1, at[1] - 1)
        \o (IF at[2] = 0 THEN <<>>
            ELSE << TakeBytes(lines[at[1]], 1, Len(lines[at[1]]), at[2]) >>)

\* storage after writer.writerows failed where the write stopped at << i, b >>
FailedWrite_cleanup(storage, path, lines, at) ==
    [p \in {q \in DOMAIN storage : q = SourcePath} |-> storage[p]]

FailedWrite(storage, path, lines, at) ==
    WriteFile(storage, path, WrittenLines(lines, at))

\* PrismSession(): what __init__ logs around the start of the browser
SessionLog ==
    << LogRecord("Starting new PRISM session...", <<>>),
       LogRecord("PRISM session initialized.", <<>>) >>

\* the session is constructed and no method has been called yet
InitLocals ==
    /\ pc = "idle"
    /\ op = "none"
    /\ args = DefaultArgs
    /\ handles = {}
    /\ reader = 0
    /\ line_num = 0
    /\ row_count = 0
    /\ partition_number = 0
    /\ rows = <<>>
    /\ partitions = <<>>
    /\ needs_partition = None
    /\ part_idx = 0
    /\ driver = <<>>
    /\ log = SessionLog
    /\ calls = <<>>
    /\ retval = <<>>
    /\ raised = None
    /\ prev = <<>>

Init ==
    /\ fs \in {[p \in {SourcePath} |-> f] : f \in Files}
    /\ InitLocals

\* open(path) finds the file
Exists(path) == path \in DOMAIN fs

\* open(csv_path) raises: the caller's call ends there
OpenSourceFails ==
    /\ raised' = Some(OSError("open", args'.csv_path))
    /\ pc' = "raised"
    /\ UNCHANGED handles

(***************************************************************************)
(* _validate_csv                                                           *)
(***************************************************************************)
\* the checks of the loop body on one row: the exception raised, or None
RowError_label_ge(row) ==
    IF Len(row) # NumColumns
    THEN Some(ValueError("CSV row must have exactly 3 columns."))
    ELSE IF ~is_float_string(row[1])
    THEN Some(ValueError("First column must be a float coordinate."))
    ELSE IF ~is_float_string(row[2])
    THEN Some(ValueError("Second column must be a float coordinate."))
    ELSE IF Len(row[3]) >= MaxLabelLen
    THEN Some(ValueError("Third column must be a string of 12 or fewer characters."))
    ELSE None

RowError(row) ==
    IF Len(row) # NumColumns
    THEN Some(ValueError("CSV row must have exactly 3 columns."))
    ELSE IF ~is_float_string(row[1])
    THEN Some(ValueError("First column must be a float coordinate."))
    ELSE IF ~is_float_string(row[2])
    THEN Some(ValueError("Second column must be a float coordinate."))
    ELSE IF Len(row[3]) > MaxLabelLen
    THEN Some(ValueError("Third column must be a string of 12 or fewer characters."))
    ELSE None

\* if row_count > 500: return True, else: return False
NeedsPartition_at_limit(count) == count >= RowLimit

NeedsPartition(count) == count > RowLimit

\* the records logged once every row has passed
ValidationLog(count) ==
    << LogRecord("CSV validation passed for {row_count} rows.", <<count>>),
       IF NeedsPartition(count)
       THEN LogRecord("CSV is greater than 500 row max. Partitioning required.", <<>>)
       ELSE LogRecord("CSV is within the row limits.", <<>>) >>

\* next(reader) on the open source file
NextRow == csv_reader_next(fs[args.csv_path], line_num, parse_reset)

\* with open(csv_path) ...: reader = csv.reader(csvfile); row_count = 0
EnterValidateCsv ==
    /\ Exists(args'.csv_path)
    /\ handles' = handles \cup {Handle(args'.csv_path, "r")}
    /\ reader' = 0
    /\ line_num' = 0
    /\ row_count' = 0
    /\ pc' = "validate"

\* the caller invokes _validate_csv(csv_path)
CallValidateCsv ==
    /\ pc = "idle"
    /\ op' = "_validate_csv"
    /\ args' = PathArgs(SourcePath)
    /\ \/ EnterValidateCsv /\ UNCHANGED raised
       \/ OpenSourceFails /\ UNCHANGED << reader_vars, row_count >>
    /\ UNCHANGED << fs, partitioner_vars, needs_partition, part_idx, driver, log,
                    calls, retval, prev >>

\* one iteration of `for row in reader`
ValidateRow_report_at_end ==
    /\ pc = "validate"
    /\ NextRow.row # None
    /\ LET row == NextRow.row[1]
           e == RowError(row)
           pending == IF e # None THEN e ELSE raised
       IN /\ reader' = reader + 1
          /\ line_num' = NextRow.line_num
          /\ row_count' = row_count + 1
          /\ raised' = pending
          /\ IF pending # None /\ csv_reader_next(fs[args.csv_path], line_num', parse_reset).row = None
             THEN /\ handles' = Close(handles, Handle(args.csv_path, "r"))
                  /\ pc' = "raised"
             ELSE UNCHANGED << handles, pc >>
    /\ UNCHANGED << fs, op, args, partitioner_vars, needs_partition, part_idx,
                    driver, log, calls, retval, prev >>

\* the reader raises instead of yielding a row: the exception leaves the loop
\* and the with block
ReaderRaises(next) ==
    /\ line_num' = next.line_num
    /\ raised' = next.raised
    /\ handles' = Close(handles, Handle(args.csv_path, "r"))
    /\ pc' = "raised"
    /\ UNCHANGED reader

ValidateRow ==
    /\ pc = "validate"
    /\ LET next == NextRow IN
       IF next.raised # None
       THEN ReaderRaises(next) /\ UNCHANGED row_count
       ELSE /\ next.row # None
            /\ LET row == next.row[1]
                   e == RowError(row)
               IN /\ reader' = reader + 1
                  /\ line_num' = next.line_num
                  /\ row_count' = row_count + 1
                  /\ IF e # None
                     THEN /\ raised' = e
                          /\ handles' = Close(handles, Handle(args.csv_path, "r"))
                          /\ pc' = "raised"
                     ELSE UNCHANGED << raised, handles, pc >>
    /\ UNCHANGED << fs, op, args, partitioner_vars, needs_partition, part_idx,
                    driver, log, calls, retval, prev >>

\* the reader is exhausted: log, leave the with block and return
ValidateReturn ==
    /\ pc = "validate"
    /\ NextRow.row = None
    /\ NextRow.raised = None
    /\ log' = log \o ValidationLog(row_count)
    /\ handles' = Close(handles, Handle(args.csv_path, "r"))
    /\ IF op = "_validate_csv"
       THEN /\ retval' = << NeedsPartition(row_count) >>
            /\ pc' = "returned"
            /\ UNCHANGED needs_partition
       ELSE /\ needs_partition' = Some(NeedsPartition(row_count))
            /\ pc' = "sc_branch"
            /\ UNCHANGED retval
    /\ UNCHANGED << fs, op, args, reader_vars, row_count, partitioner_vars, part_idx,
                    driver, calls, raised, prev >>

(***************************************************************************)
(* _generate_partitions                                                    *)
(***************************************************************************)
\* with open(csv_path) ...: partition_number = 1; rows = []; partitions = []
EnterGeneratePartitions ==
    /\ Exists(args'.csv_path)
    /\ handles' = handles \cup {Handle(args'.csv_path, "r")}
    /\ reader' = 0
    /\ line_num' = 0
    /\ partition_number' = 1
    /\ rows' = <<>>
    /\ partitions' = <<>>
    /\ pc' = "partition"

\* if len(rows) == 500
BufferFull_one_late(buffer) == Len(buffer) = PartitionSize + 1

BufferFull(buffer) == Len(buffer) = PartitionSize

\* the caller invokes _generate_partitions(csv_path)
CallGeneratePartitions ==
    /\ pc = "idle"
    /\ op' = "_generate_partitions"
    /\ args' = PathArgs(SourcePath)
    /\ \/ EnterGeneratePartitions /\ UNCHANGED raised
       \/ OpenSourceFails /\ UNCHANGED << reader_vars, partitioner_vars >>
    /\ UNCHANGED << fs, validator_vars, needs_partition, part_idx, driver, log,
                    calls, retval, prev >>

\* one iteration of `for row in reader`: append; a full buffer is to be flushed:
\* output_path = ...; partitions.append(output_path)
PartitionRow ==
    /\ pc = "partition"
    /\ LET next == NextRow IN
       IF next.raised # None
       THEN ReaderRaises(next) /\ UNCHANGED << rows, partitions >>
       ELSE /\ next.row # None
            /\ LET row == next.row[1]
                   buffer == Append(rows, row)
               IN /\ reader' = reader + 1
                  /\ line_num' = next.line_num
                  /\ rows' = buffer
                  /\ IF BufferFull(buffer)
                     THEN /\ partitions' = Append(partitions,
                                                  OutputPath(args.csv_path, partition_number))
                          /\ pc' = "flush"
                     ELSE UNCHANGED << partitions, pc >>
                  /\ UNCHANGED << handles, raised >>
    /\ UNCHANGED << fs, op, args, partition_number, validator_vars,
                    needs_partition, part_idx, driver, log, calls, retval, prev >>

\* the reader is exhausted: remaining rows are to be flushed, else return
\* if rows: something is left to write after the loop
HasRemaining_always(buffer) == TRUE

HasRemaining(buffer) == buffer # <<>>

PartitionEnd ==
    /\ pc = "partition"
    /\ NextRow.row = None
    /\ NextRow.raised = None
    /\ IF HasRemaining(rows)
       THEN /\ partitions' = Append(partitions, OutputPath(args.csv_path, partition_number))
            /\ pc' = "flush_last"
            /\ UNCHANGED << handles, retval >>
       ELSE /\ handles' = Close(handles, Handle(args.csv_path, "r"))
            /\ UNCHANGED partitions
            /\ IF op = "_generate_partitions"
               THEN retval' = << partitions >> /\ pc' = "returned"
               ELSE pc' = "sc_settings" /\ UNCHANGED retval
    /\ UNCHANGED << fs, op, args, reader_vars, rows, partition_number, validator_vars,
                    needs_partition, part_idx, driver, log, calls, raised, prev >>

\* with open(output_path, "w", newline="") as outfile: created or truncated
OpenOutput ==
    /\ pc \in {"flush", "flush_last"}
    /\ LET output_path == partitions[Len(partitions)]
       IN /\ fs' = WriteFile(fs, output_path, <<>>)
          /\ handles' = handles \cup {Handle(output_path, "w")}
    /\ pc' = IF pc = "flush" THEN "write" ELSE "write_last"
    /\ UNCHANGED << op, args, reader_vars, partitioner_vars, validator_vars,
                    needs_partition, part_idx, driver, log, calls, retval, raised, prev >>

\* open(output_path, "w") raises: the exception leaves both with blocks
OpenOutputFails ==
    /\ pc \in {"flush", "flush_last"}
    /\ raised' = Some(OSError("open", partitions[Len(partitions)]))
    /\ handles' = Close(handles, Handle(args.csv_path, "r"))
    /\ pc' = "raised"
    /\ UNCHANGED << fs, op, args, reader_vars, partitioner_vars, validator_vars,
                    needs_partition, part_idx, driver, log, calls, retval, prev >>

\* writer.writerows(rows), close; then rows = [], partition_number += 1,
\* or after the last flush leave the outer with block and return partitions
WriteOutput ==
    /\ pc \in {"write", "write_last"}
    /\ LET output_path == partitions[Len(partitions)]
           closed == Close(handles, Handle(output_path, "w"))
       IN /\ fs' = WriteFile(fs, output_path, csv_writerows(rows))
          /\ IF pc = "write"
             THEN /\ handles' = closed
                  /\ rows' = <<>>
                  /\ partition_number' = partition_number + 1
                  /\ pc' = "partition"
                  /\ UNCHANGED retval
             ELSE /\ handles' = Close(closed, Handle(args.csv_path, "r"))
                  /\ UNCHANGED << rows, partition_number >>
                  /\ IF op = "_generate_partitions"
                     THEN retval' = << partitions >> /\ pc' = "returned"
                     ELSE pc' = "sc_settings" /\ UNCHANGED retval
    /\ UNCHANGED << op, args, reader_vars, partitions, validator_vars,
                    needs_partition, part_idx, driver, log, calls, raised, prev >>

\* writer.writerows(rows) or the close raises: the exception leaves both with
\* blocks; what was written stays
WriteOutputFails ==
    /\ pc \in {"write", "write_last"}
    /\ LET output_path == partitions[Len(partitions)]
       IN /\ \E lines \in {csv_writerows(rows)} :
                \E at \in PartialWrites(lines) :
                    fs' = FailedWrite(fs, output_path, lines, at)
          /\ raised' = Some(OSError("write", output_path))
          /\ handles' = Close(Close(handles, Handle(output_path, "w")),
                              Handle(args.csv_path, "r"))
    /\ pc' = "raised"
    /\ UNCHANGED << op, args, reader_vars, partitioner_vars, validator_vars,
                    needs_partition, part_idx, driver, log, calls, retval, prev >>

(***************************************************************************)
(* submit_coordinates                                                      *)
(***************************************************************************)
\* what a bulk request does on the driver before the CSV is validated
BulkOpening_upload_first(a) == << Event("get", <<BULK_URL>>) >> \o _upload_csv(a.csv_path)

BulkOpening(a) == << Event("get", <<BULK_URL>>) >>

\* if not needs_partition
UploadsSource_inverted(np) == np = Some(TRUE)

UploadsSource(np) == np = Some(FALSE)

\* the final else: self._submit_and_download()
TakesSinglePath_always(a) == TRUE

TakesSinglePath(a) == ~a.is_bulk_request

\* _validate_inputs, driver.get, then _validate_csv or _set_coordinates
\* the body of submit_coordinates up to the end of its first if/else, on the
\* arguments a; made and logged are the calls and the records so far
EnterSubmitCoordinates(a, made, logged) ==
    /\ args' = a
    /\ IF _validate_inputs(a) # None
       THEN /\ raised' = _validate_inputs(a)
            /\ calls' = Append(made, Call("_validate_inputs", <<>>))
            /\ log' = logged
            /\ pc' = "raised"
            /\ UNCHANGED << handles, reader_vars, row_count, driver >>
       ELSE IF a.is_bulk_request
       THEN /\ driver' = driver \o BulkOpening(a)
            /\ log' = Append(logged, LogRecord("Validating CSV file...", <<>>))
            /\ calls' = made \o << Call("_validate_inputs", <<>>),
                                   Call("_validate_csv", a.csv_path) >>
            /\ \/ EnterValidateCsv /\ UNCHANGED raised
               \/ OpenSourceFails /\ UNCHANGED << reader_vars, row_count >>
       ELSE /\ calls' = made \o << Call("_validate_inputs", <<>>),
                                   Call("_set_coordinates", <<a.latitude, a.longitude>>) >>
            /\ log' = logged
            /\ \/ /\ driver' = Append(driver, Event("get", <<SINGLE_URL>>))
                                   \o _set_coordinates(a.latitude, a.longitude)
                  /\ pc' = "sc_settings"
                  /\ UNCHANGED raised
               \/ \E k \in Waits(_set_coordinates_steps(a.latitude, a.longitude)) :
                     LET r == Run(_set_coordinates_steps(a.latitude, a.longitude), k)
                     IN /\ driver' = Append(driver, Event("get", <<SINGLE_URL>>)) \o r.events
                        /\ raised' = r.raised
                        /\ pc' = "raised"
            /\ UNCHANGED << handles, reader_vars, row_count >>

CallSubmitCoordinates ==
    /\ pc = "idle"
    /\ op' = "submit_coordinates"
    /\ \E a \in SubmitArgs : EnterSubmitCoordinates(a, calls, log)
    /\ UNCHANGED << fs, partitioner_vars, needs_partition, part_idx, retval, prev >>

\* if not needs_partition: self._upload_csv(csv_path)
SubmitUploadSource ==
    /\ pc = "sc_branch"
    /\ UploadsSource(needs_partition)
    /\ log' = Append(log, LogRecord("Uploading CSV file...", <<>>))
    /\ driver' = driver \o _upload_csv(args.csv_path)
    /\ calls' = Append(calls, Call("_upload_csv", args.csv_path))
    /\ pc' = "sc_settings"
    /\ UNCHANGED << fs, op, args, handles, reader_vars, validator_vars, partitioner_vars,
                    needs_partition, part_idx, retval, raised, prev >>

\* self._upload_csv(csv_path) raises: the file input is not on the page
SubmitUploadSourceFails ==
    /\ pc = "sc_branch"
    /\ UploadsSource(needs_partition)
    /\ log' = Append(log, LogRecord("Uploading CSV file...", <<>>))
    /\ calls' = Append(calls, Call("_upload_csv", args.csv_path))
    /\ \E k \in Waits(_upload_csv_steps(args.csv_path)) :
          LET r == Run(_upload_csv_steps(args.csv_path), k)
          IN /\ driver' = driver \o r.events
             /\ raised' = r.raised
    /\ pc' = "raised"
    /\ UNCHANGED << fs, op, args, handles, reader_vars, validator_vars, partitioner_vars,
                    needs_partition, part_idx, retval, prev >>

\* else: partitions = self._generate_partitions(csv_path)
SubmitPartition ==
    /\ pc = "sc_branch"
    /\ ~UploadsSource(needs_partition)
    /\ log' = Append(log, LogRecord("Partitioning CSV file...", <<>>))
    /\ calls' = Append(calls, Call("_generate_partitions", args.csv_path))
    /\ args' = args
    /\ \/ EnterGeneratePartitions /\ UNCHANGED raised
       \/ OpenSourceFails /\ UNCHANGED << reader_vars, partitioner_vars >>
    /\ UNCHANGED << fs, op, validator_vars, needs_partition, part_idx, driver,
                    retval, prev >>

\* the steps of _set_date_range, then those of _set_data_settings
SettingsSteps(a) == _set_date_range_steps(a) \o _set_data_settings_steps(a)

\* the calls made when the steps were run up to position k
SettingsCalls(a, k) ==
    << Call("_set_date_range", <<>>) >>
    \o IF k > Len(_set_date_range_steps(a)) THEN << Call("_set_data_settings", <<>>) >> ELSE <<>>

\* _set_date_range and _set_data_settings
SubmitSettings ==
    /\ pc = "sc_settings"
    /\ LET r == Run(SettingsSteps(args), 0)
       IN /\ driver' = driver \o r.events
          /\ log' = log \o r.log
          /\ calls' = calls \o SettingsCalls(args, Reached(SettingsSteps(args)) + 1)
          /\ raised' = r.raised
          /\ pc' = IF r.raised # None THEN "raised" ELSE "sc_submit"
    /\ UNCHANGED << fs, op, args, handles, reader_vars, validator_vars, partitioner_vars,
                    needs_partition, part_idx, retval, prev >>

\* _set_date_range or _set_data_settings raises: an element never came
SubmitSettingsFails ==
    /\ pc = "sc_settings"
    /\ \E k \in Waits(SettingsSteps(args)) :
          LET r == Run(SettingsSteps(args), k)
          IN /\ driver' = driver \o r.events
             /\ log' = log \o r.log
             /\ calls' = calls \o SettingsCalls(args, k)
             /\ raised' = r.raised
    /\ pc' = "raised"
    /\ UNCHANGED << fs, op, args, handles, reader_vars, validator_vars, partitioner_vars,
                    needs_partition, part_idx, retval, prev >>

\* else: self._submit_and_download()
SubmitSingle ==
    /\ pc = "sc_submit"
    /\ TakesSinglePath(args)
    /\ driver' = driver \o _submit_and_download
    /\ calls' = Append(calls, Call("_submit_and_download", <<>>))
    /\ retval' = << "None" >>
    /\ pc' = "returned"
    /\ UNCHANGED << fs, op, args, handles, reader_vars, validator_vars, partitioner_vars,
                    needs_partition, part_idx, log, raised, prev >>

\* self._submit_and_download() raises: a button is not clickable
SubmitSingleFails ==
    /\ pc = "sc_submit"
    /\ TakesSinglePath(args)
    /\ calls' = Append(calls, Call("_submit_and_download", <<>>))
    /\ \E k \in Waits(_submit_and_download_steps) :
          LET r == Run(_submit_and_download_steps, k)
          IN /\ driver' = driver \o r.events
             /\ raised' = r.raised
    /\ pc' = "raised"
    /\ UNCHANGED << fs, op, args, handles, reader_vars, validator_vars, partitioner_vars,
                    needs_partition, part_idx, log, retval, prev >>

\* bulk, not partitioned: self._submit_and_download_bulk()
SubmitBulk ==
    /\ pc = "sc_submit"
    /\ args.is_bulk_request
    /\ needs_partition = Some(FALSE)
    /\ log' = Append(log, LogRecord("Submitting and downloading single part bulk data...", <<>>))
    /\ driver' = driver \o _submit_and_download_bulk
    /\ calls' = Append(calls, Call("_submit_and_download_bulk", <<>>))
    /\ retval' = << "None" >>
    /\ pc' = "returned"
    /\ UNCHANGED << fs, op, args, handles, reader_vars, validator_vars, partitioner_vars,
                    needs_partition, part_idx, raised, prev >>

\* self._submit_and_download_bulk() raises: the button is not clickable
SubmitBulkFails ==
    /\ pc = "sc_submit"
    /\ args.is_bulk_request
    /\ needs_partition = Some(FALSE)
    /\ log' = Append(log, LogRecord("Submitting and downloading single part bulk data...", <<>>))
    /\ calls' = Append(calls, Call("_submit_and_download_bulk", <<>>))
    /\ \E k \in Waits(_submit_and_download_bulk_steps) :
          LET r == Run(_submit_and_download_bulk_steps, k)
          IN /\ driver' = driver \o r.events
             /\ raised' = r.raised
    /\ pc' = "raised"
    /\ UNCHANGED << fs, op, args, handles, reader_vars, validator_vars, partitioner_vars,
                    needs_partition, part_idx, retval, prev >>

\* bulk, partitioned: enter `for part in partitions`
SubmitPartsBegin ==
    /\ pc = "sc_submit"
    /\ args.is_bulk_request
    /\ needs_partition = Some(TRUE)
    /\ log' = Append(log, LogRecord("Submitting and downloading multi part bulk data...", <<>>))
    /\ part_idx' = 1
    /\ pc' = "sc_parts"
    /\ UNCHANGED << fs, op, args, handles, reader_vars, validator_vars, partitioner_vars,
                    needs_partition, driver, calls, retval, raised, prev >>

\* for part in partitions: the file handed to self._upload_csv
PartToUpload_source(part) == args.csv_path

PartToUpload(part) == part

\* the next part of the loop: self._upload_csv(part)
SubmitPartUpload ==
    /\ pc = "sc_parts"
    /\ part_idx <= Len(partitions)
    /\ driver' = driver \o _upload_csv(PartToUpload(partitions[part_idx]))
    /\ calls' = Append(calls, Call("_upload_csv", PartToUpload(partitions[part_idx])))
    /\ pc' = "sc_part_submit"
    /\ UNCHANGED << fs, op, args, handles, reader_vars, validator_vars, partitioner_vars,
                    needs_partition, part_idx, log, retval, raised, prev >>

\* self._submit_and_download_bulk() for the part just uploaded
SubmitPartSubmit ==
    /\ pc = "sc_part_submit"
    /\ log' = Append(log, LogRecord("Submitting and downloading data for partition: {part}",
                                    <<partitions[part_idx]>>))
    /\ driver' = driver \o _submit_and_download_bulk
    /\ calls' = Append(calls, Call("_submit_and_download_bulk", <<>>))
    /\ pc' = "sc_part_remove"
    /\ UNCHANGED << fs, op, args, handles, reader_vars, validator_vars, partitioner_vars,
                    needs_partition, part_idx, retval, raised, prev >>

\* storage when the loop is left by an exception: there is no handler
AfterDriverError_cleanup(storage, parts, k) ==
    [p \in DOMAIN storage \ {parts[j] : j \in k..Len(parts)} |-> storage[p]]

AfterDriverError(storage, parts, k) == storage

\* self._upload_csv(part) raises: the file input is not on the page
SubmitPartUploadFails ==
    /\ pc = "sc_parts"
    /\ part_idx <= Len(partitions)
    /\ calls' = Append(calls, Call("_upload_csv", PartToUpload(partitions[part_idx])))
    /\ fs' = AfterDriverError(fs, partitions, part_idx)
    /\ raised' = Some(TimeoutException("locations_file", partitions[part_idx]))
    /\ pc' = "raised"
    /\ UNCHANGED << op, args, handles, reader_vars, validator_vars, partitioner_vars,
                    needs_partition, part_idx, driver, log, retval, prev >>

\* self._submit_and_download_bulk() raises: the button is not clickable
SubmitPartSubmitFails ==
    /\ pc = "sc_part_submit"
    /\ log' = Append(log, LogRecord("Submitting and downloading data for partition: {part}",
                                    <<partitions[part_idx]>>))
    /\ calls' = Append(calls, Call("_submit_and_download_bulk", <<>>))
    /\ fs' = AfterDriverError(fs, partitions, part_idx)
    /\ raised' = Some(TimeoutException("submitdown_button", partitions[part_idx]))
    /\ pc' = "raised"
    /\ UNCHANGED << op, args, handles, reader_vars, validator_vars, partitioner_vars,
                    needs_partition, part_idx, driver, retval, prev >>

\* storage once the part has been submitted: os.remove(part)
RemovedAfterSubmit_keep(storage, part) == storage

RemovedAfterSubmit(storage, part) == RemoveFile(storage, part)

\* os.remove(part), and on to the next part
SubmitPartRemove ==
    /\ pc = "sc_part_remove"
    /\ log' = Append(log, LogRecord("Removing temporary CSV file: {part}",
                                    <<partitions[part_idx]>>))
    /\ fs' = RemovedAfterSubmit(fs, partitions[part_idx])
    /\ calls' = Append(calls, Call("os.remove", partitions[part_idx]))
    /\ part_idx' = part_idx + 1
    /\ pc' = "sc_parts"
    /\ UNCHANGED << op, args, handles, reader_vars, validator_vars, partitioner_vars,
                    needs_partition, driver, retval, raised, prev >>

\* the loop is exhausted: submit_coordinates returns None
SubmitPartsEnd ==
    /\ pc = "sc_parts"
    /\ part_idx > Len(partitions)
    /\ retval' = << "None" >>
    /\ pc' = "returned"
    /\ UNCHANGED << fs, op, args, handles, reader_vars, validator_vars, partitioner_vars,
                    needs_partition, part_idx, driver, log, calls, raised, prev >>

(***************************************************************************)
(* close                                                                   *)
(***************************************************************************)
\* the caller closes the session, before any request (test_close) or after
\* one has returned (hit_prism.py: prism.close() follows the request, and an
\* exception of the request ends the script before it):
\* logger.info(...); self.driver.quit(); logger.info(...)
CallClose ==
    /\ pc \in {"idle", "returned"}
    /\ op' = "close"
    /\ log' = log \o << LogRecord("Closing PRISM session...", <<>>),
                         LogRecord("PRISM session closed.", <<>>) >>
    /\ driver' = Append(driver, Event("quit", <<>>))
    /\ calls' = Append(calls, Call("close", <<>>))
    /\ pc' = "closed"
    /\ UNCHANGED << fs, args, handles, reader_vars, validator_vars, partitioner_vars,
                    needs_partition, part_idx, retval, raised, prev >>

Next ==
    \/ CallClose
    \/ CallValidateCsv
    \/ ValidateRow
    \/ ValidateReturn
    \/ CallGeneratePartitions
    \/ PartitionRow
    \/ PartitionEnd
    \/ OpenOutput
    \/ OpenOutputFails
    \/ WriteOutput
    \/ WriteOutputFails
    \/ CallSubmitCoordinates
    \/ SubmitUploadSource
    \/ SubmitUploadSourceFails
    \/ SubmitPartition
    \/ SubmitSettings
    \/ SubmitSettingsFails
    \/ SubmitSingle
    \/ SubmitSingleFails
    \/ SubmitBulk
    \/ SubmitBulkFails
    \/ SubmitPartsBegin
    \/ SubmitPartUpload
    \/ SubmitPartSubmit
    \/ SubmitPartUploadFails
    \/ SubmitPartSubmitFails
    \/ SubmitPartRemove
    \/ SubmitPartsEnd

Spec == Init /\ [][Next]_vars

(***************************************************************************)
(* The caller runs the same method again on the same path, once the first  *)
(* call has returned; storage is as the first call left it.                *)
(***************************************************************************)
Rerun ==
    /\ pc = "returned"
    /\ op \in {"_validate_csv", "_generate_partitions"}
    /\ Len(prev) < MaxRuns - 1
    /\ prev' = Append(prev, [retval |-> retval, raised |-> raised, fs |-> fs])
    /\ retval' = <<>>
    /\ args' = args
    /\ IF op = "_validate_csv"
       THEN /\ \/ EnterValidateCsv /\ UNCHANGED raised
               \/ OpenSourceFails /\ UNCHANGED << reader_vars, row_count >>
            /\ UNCHANGED partitioner_vars
       ELSE /\ \/ EnterGeneratePartitions /\ UNCHANGED raised
               \/ OpenSourceFails /\ UNCHANGED << reader_vars, partitioner_vars >>
            /\ UNCHANGED validator_vars
    /\ UNCHANGED << fs, op, needs_partition, part_idx, driver, log, calls >>

NextRerun ==
    \/ Next
    \/ Rerun

SpecRerun == Init /\ [][NextRerun]_vars

(***************************************************************************)
(* The date checks called on their own.                                    *)
(***************************************************************************)
\* the values the checks are called with
DateValues == 0..32
MonthValues == 0..13
YearValues == {1894, 1895, 1896, 1900, 1999, 2000, 2020, 2021, 2024,
               PresentYear, PresentYear + 1}

\* the values _validate_inputs is called with, for start and for end
InputDates == {0, 1, 29, 30, 31, 32}
InputMonths == {0, 1, 2, 4, 12, 13}
InputYears == {1894, 1895, 1900, 2020, PresentYear + 1}

\* a function returns None, or its exception reaches the caller
ReturnOrRaise(e) ==
    IF e = None
    THEN /\ retval' = << "None" >>
         /\ pc' = "returned"
         /\ UNCHANGED raised
    ELSE /\ raised' = e
         /\ pc' = "raised"
         /\ UNCHANGED retval

\* the caller invokes check_dates(date, month, year)
CallCheckDates ==
    /\ pc = "idle"
    /\ op' = "check_dates"
    /\ \E d \in DateValues, m \in MonthValues, y \in YearValues :
         /\ args' = [DefaultArgs EXCEPT !.start_date = d, !.start_month = m, !.start_year = y]
         /\ ReturnOrRaise(check_dates(d, m, y))
    /\ UNCHANGED << fs, handles, reader_vars, validator_vars, partitioner_vars,
                    needs_partition, part_idx, driver, log, calls, prev >>

\* the caller invokes check_months(month)
CallCheckMonths ==
    /\ pc = "idle"
    /\ op' = "check_months"
    /\ \E m \in MonthValues :
         /\ args' = [DefaultArgs EXCEPT !.start_month = m]
         /\ ReturnOrRaise(check_months(m))
    /\ UNCHANGED << fs, handles, reader_vars, validator_vars, partitioner_vars,
                    needs_partition, part_idx, driver, log, calls, prev >>

\* the caller invokes check_years(year)
CallCheckYears ==
    /\ pc = "idle"
    /\ op' = "check_years"
    /\ \E y \in YearValues :
         /\ args' = [DefaultArgs EXCEPT !.start_year = y]
         /\ ReturnOrRaise(check_years(y))
    /\ UNCHANGED << fs, handles, reader_vars, validator_vars, partitioner_vars,
                    needs_partition, part_idx, driver, log, calls, prev >>

\* the caller invokes _validate_inputs with six values
CallValidateInputs ==
    /\ pc = "idle"
    /\ op' = "_validate_inputs"
    /\ \E sd \in InputDates, sm \in InputMonths, sy \in InputYears,
          ed \in InputDates, em \in InputMonths, ey \in InputYears :
         /\ args' = [DefaultArgs EXCEPT !.start_date = sd, !.start_month = sm,
                                        !.start_year = sy, !.end_date = ed,
                                        !.end_month = em, !.end_year = ey]
         /\ ReturnOrRaise(_validate_inputs(args'))
    /\ UNCHANGED << fs, handles, reader_vars, validator_vars, partitioner_vars,
                    needs_partition, part_idx, driver, log, calls, prev >>

\* storage plays no part in the date checks: one file
InitDates == Init /\ fs = [p \in {SourcePath} |-> << LineGood >>]

NextDates ==
    \/ CallCheckDates
    \/ CallCheckMonths
    \/ CallCheckYears
    \/ CallValidateInputs

SpecDates == InitDates /\ [][NextDates]_vars

(***************************************************************************)
(* The form-filling methods called on their own.                           *)
(***************************************************************************)
ModeFlags == {"is_30_year_monthly", "is_30_year_daily", "is_annual",
              "is_single_month", "is_monthly", "is_daily"}

DataVars == {true_defaults[i][1] : i \in 1..Len(true_defaults)}
                \cup {false_defaults[i][1] : i \in 1..Len(false_defaults)}

\* the defaults with the named arguments replaced by the values of f
WithArgs(f) ==
    [k \in DOMAIN DefaultArgs |-> IF k \in DOMAIN f THEN f[k] ELSE DefaultArgs[k]]

\* the caller invokes _set_date_range with some combination of the mode flags
CallSetDateRange ==
    /\ pc = "idle"
    /\ op' = "_set_date_range"
    /\ \E f \in [ModeFlags -> BOOLEAN] :
         /\ args' = WithArgs(f)
         /\ \E k \in {0} \cup Waits(_set_date_range_steps(args')) :
               LET d == Run(_set_date_range_steps(args'), k)
               IN /\ driver' = driver \o d.events
                  /\ log' = log \o d.log
                  /\ ReturnOrRaise(d.raised)
    /\ calls' = Append(calls, Call("_set_date_range", <<>>))
    /\ UNCHANGED << fs, handles, reader_vars, validator_vars, partitioner_vars,
                    needs_partition, part_idx, prev >>

\* the caller invokes _set_data_settings with some combination of the variables
CallSetDataSettings ==
    /\ pc = "idle"
    /\ op' = "_set_data_settings"
    /\ \E f \in [DataVars -> BOOLEAN] :
         /\ args' = WithArgs(f)
         /\ \E k \in {0} \cup Waits(_set_data_settings_steps(args')) :
               LET d == Run(_set_data_settings_steps(args'), k)
               IN /\ driver' = driver \o d.events
                  /\ ReturnOrRaise(d.raised)
    /\ calls' = Append(calls, Call("_set_data_settings", <<>>))
    /\ UNCHANGED << fs, handles, reader_vars, validator_vars, partitioner_vars,
                    needs_partition, part_idx, log, prev >>

NextForm ==
    \/ CallSetDateRange
    \/ CallSetDataSettings

SpecForm == InitDates /\ [][NextForm]_vars

(***************************************************************************)
(* The second copy of the validator, csv_test.validate_csv, run on the     *)
(* same file after PrismSession._validate_csv has ended.                   *)
(***************************************************************************)
\* the checks of one row, in the order of the copy
csv_test_RowError(row) ==
    IF Len(row) # 3
    THEN Some(ValueError("CSV row must have exactly 3 columns."))
    ELSE IF ~is_float_string(row[1])
    THEN Some(ValueError("First column must be a float coordinate."))
    ELSE IF ~is_float_string(row[2])
    THEN Some(ValueError("Second column must be a float coordinate."))
    ELSE IF Len(row[3]) > 12
    THEN Some(ValueError("Third column must be a string of 12 or fewer characters."))
    ELSE None

\* if row_count > 500: return False, else: return True
csv_test_Return(count) == IF count > 500 THEN FALSE ELSE TRUE

\* the whole of validate_csv on the lines of a file: the error of the first
\* row that fails a check, or the value returned and the records logged
csv_test_loop(all, errors, reader_raised) ==
    IF \E i \in 1..Len(all) : errors[i] # None
    THEN [raised |-> errors[CHOOSE i \in 1..Len(all) :
                               errors[i] # None /\ \A j \in 1..(i - 1) : errors[j] = None],
          retval |-> <<>>,
          log |-> <<>>]
    ELSE IF reader_raised # None
    THEN [raised |-> reader_raised, retval |-> <<>>, log |-> <<>>]
    ELSE [raised |-> None,
          retval |-> << csv_test_Return(Len(all)) >>,
          log |-> << LogRecord("CSV validation passed for {row_count} rows.", <<Len(all)>>),
                     IF Len(all) > 500
                     THEN LogRecord("CSV is greater than 500 row max. Partitioning required.", <<>>)
                     ELSE LogRecord("CSV is within the row limits.", <<>>) >>]

csv_test_read(read) ==
    csv_test_loop(read.rows, [i \in 1..Len(read.rows) |-> csv_test_RowError(read.rows[i])],
                  read.raised)

validate_csv(lines) == csv_test_read(csv_reader_all(lines))

\* the caller invokes csv_test.validate_csv on the file just validated; its
\* open(file_path, newline="") finds the file, or the operating system
\* refuses and nothing is read or logged
CallCsvTestValidateCsv ==
    /\ op = "_validate_csv"
    /\ pc \in {"returned", "raised"}
    /\ prev' = Append(prev, [retval |-> retval, raised |-> raised, fs |-> fs])
    /\ op' = "csv_test.validate_csv"
    /\ \E opened \in BOOLEAN :
         \E r \in { IF opened
                    THEN validate_csv(fs[args.csv_path])
                    ELSE [raised |-> Some(OSError("open", args.csv_path)),
                          retval |-> <<>>, log |-> <<>>] } :
            /\ raised' = r.raised
            /\ retval' = r.retval
            /\ log' = log \o r.log
            /\ pc' = IF r.raised = None THEN "returned" ELSE "raised"
    /\ UNCHANGED << fs, args, handles, reader_vars, validator_vars, partitioner_vars,
                    needs_partition, part_idx, driver, calls >>

NextCopies ==
    \/ CallValidateCsv
    \/ ValidateRow
    \/ ValidateReturn
    \/ CallCsvTestValidateCsv

\* a valid line, then a line whose third field has n characters
HugeLine(n) == <<"1", ",", "2", ",">> \o [i \in 1..n |-> "a"] \o <<LF>>

\* files whose second row has a field at the reader's limit, and one past it
HugeFiles == {<< GoodLine(1), HugeLine(n) >> : n \in {field_size_limit, field_size_limit + 1}}

InitCopies ==
    /\ fs \in {[p \in {SourcePath} |-> f] : f \in Files \cup HugeFiles}
    /\ InitLocals

SpecCopies == InitCopies /\ [][NextCopies]_vars

(***************************************************************************)
(* get_daily_values: its own checks, then submit_coordinates in daily mode *)
(***************************************************************************)
\* datetime.datetime.now().month
PresentMonth == 10

\* posixpath: sep, and os.getcwd()
sep == "/"
WorkingDirectory == <<"/", "w", "o", "r", "k">>

\* os.path.isabs(path): path.startswith("/")
isabs(path) == path # <<>> /\ Head(path) = sep

\* os.path.join(a, b)
join(a, b) ==
    IF isabs(b) THEN b
    ELSE IF a = <<>> \/ a[Len(a)] = sep THEN a \o b
    ELSE a \o <<sep>> \o b

\* path.split("/"), from the i-th character on, comp being the component begun
RECURSIVE split(_, _, _)
split(path, i, comp) ==
    IF i > Len(path) THEN << comp >>
    ELSE IF path[i] = sep THEN << comp >> \o split(path, i + 1, <<>>)
    ELSE split(path, i + 1, Append(comp, path[i]))

\* the loop of normpath over the components: "" and "." are skipped, ".."
\* takes the component before it away, and is kept where there is none to
\* take in a relative path
RECURSIVE new_comps(_, _, _, _)
new_comps(comps, i, initial_slashes, acc) ==
    IF i > Len(comps) THEN acc
    ELSE LET comp == comps[i]
             dotdot == << ".", "." >>
         IN IF comp \in { <<>>, << "." >> }
            THEN new_comps(comps, i + 1, initial_slashes, acc)
            ELSE IF \/ comp # dotdot
                    \/ (initial_slashes = 0 /\ acc = <<>>)
                    \/ (acc # <<>> /\ acc[Len(acc)] = dotdot)
            THEN new_comps(comps, i + 1, initial_slashes, Append(acc, comp))
            ELSE IF acc # <<>>
            THEN new_comps(comps, i + 1, initial_slashes, SubSeq(acc, 1, Len(acc) - 1))
            ELSE new_comps(comps, i + 1, initial_slashes, acc)

\* "/".join(comps)
RECURSIVE join_comps(_)
join_comps(comps) ==
    IF comps = <<>> THEN <<>>
    ELSE IF Len(comps) = 1 THEN comps[1]
    ELSE comps[1] \o <<sep>> \o join_comps(Tail(comps))

\* os.path.normpath(path): two leading slashes are kept, one stands for
\* three or more
normpath(path) ==
    IF path = <<>> THEN << "." >>
    ELSE LET initial_slashes ==
                 IF ~isabs(path) THEN 0
                 ELSE IF Len(path) >= 2 /\ path[2] = sep /\ ~(Len(path) >= 3 /\ path[3] = sep)
                 THEN 2
                 ELSE 1
             comps == new_comps(split(path, 1, <<>>), 1, initial_slashes, <<>>)
             joined == [i \in 1..initial_slashes |-> sep] \o join_comps(comps)
         IN IF joined = <<>> THEN << "." >> ELSE joined

\* os.path.abspath(path)
abspath(path) == normpath(IF isabs(path) THEN path ELSE join(WorkingDirectory, path))

\* the ways a location is given: csv_path (relative, relative with a "."
\* component, or absolute), latitude and longitude, each a value or None
GdvLocations ==
    { [csv_path |-> SourcePath, latitude |-> None, longitude |-> None],
      [csv_path |-> << ".", sep >> \o SourcePath, latitude |-> None, longitude |-> None],
      [csv_path |-> join(WorkingDirectory, SourcePath), latitude |-> None, longitude |-> None],
      [csv_path |-> None, latitude |-> Some("40.9473"), longitude |-> Some("-112.217")],
      [csv_path |-> None, latitude |-> Some("40.9473"), longitude |-> None],
      [csv_path |-> None, latitude |-> None, longitude |-> None] }

GdvYears == {2019, 2020, PresentYear}
GdvMonths == {1, 2, 13}
GdvDates == {1, 31}

\* the three comparisons of start and end, in the order of the code
OrderingError_years_only(a) ==
    IF a.start_year > a.end_year
    THEN Some(ValueError("Start year must be less than or equal to end year."))
    ELSE None

OrderingError(a) ==
    IF a.start_year > a.end_year
    THEN Some(ValueError("Start year must be less than or equal to end year."))
    ELSE IF a.start_year = a.end_year /\ a.start_month > a.end_month
    THEN Some(ValueError("Start month must be less than or equal to end month when years are equal."))
    ELSE IF a.start_year = a.end_year /\ a.start_month = a.end_month
            /\ a.start_date > a.end_date
    THEN Some(ValueError("Start date must be less than or equal to end date when months and years are equal."))
    ELSE None

\* datetime.MINYEAR and datetime.MAXYEAR
MINYEAR == 1
MAXYEAR == 9999

\* the days of a month of the proleptic Gregorian calendar
days_in_month(year, month) ==
    IF month = 2
    THEN IF year % 4 = 0 /\ (year % 100 # 0 \/ year % 400 = 0) THEN 29 ELSE 28
    ELSE IF month \in {4, 6, 9, 11} THEN 30 ELSE 31

\* datetime.datetime(year, month, day): the checks of its arguments, in the
\* order of the constructor
datetime(year, month, day) ==
    IF year < MINYEAR \/ year > MAXYEAR
    THEN Some([type |-> "ValueError", msg |-> "year {year} is out of range",
               args |-> << year >>])
    ELSE IF month < 1 \/ month > 12
    THEN Some(ValueError("month must be in 1..12"))
    ELSE IF day < 1 \/ day > days_in_month(year, month)
    THEN Some(ValueError("day is out of range for month"))
    ELSE None

\* is_within_past_6_months(year, month, date): the error of the constructor
\* of target, or target >= six_months_ago, the first day of the sixth month
\* before the present one
is_within_past_6_months(year, month, date) ==
    LET shifted == PresentMonth - 6
        six_months_ago_month == IF shifted <= 0 THEN shifted + 12 ELSE shifted
        six_months_ago_year == IF shifted <= 0 THEN PresentYear - 1 ELSE PresentYear
    IN IF datetime(year, month, date) # None
       THEN [raised |-> datetime(year, month, date), value |-> FALSE]
       ELSE [raised |-> None,
             value |-> \/ year > six_months_ago_year
                       \/ /\ year = six_months_ago_year
                          /\ \/ month > six_months_ago_month
                             \/ month = six_months_ago_month /\ date >= 1]

\* the data settings a get_* method is called with: its defaults, or some
\* of them given
GdvSettings ==
    { [precipitation |-> TRUE, min_temp |-> FALSE, mean_temp |-> TRUE, max_temp |-> FALSE,
       min_vpd |-> FALSE, max_vpd |-> FALSE, mean_dewpoint_temp |-> FALSE],
      [precipitation |-> FALSE, min_temp |-> FALSE, mean_temp |-> TRUE, max_temp |-> FALSE,
       min_vpd |-> FALSE, max_vpd |-> TRUE, mean_dewpoint_temp |-> FALSE] }

\* the four settings only get_30_year_monthly_normals takes
GdvSolarSettings ==
    { [cloud_transmittance |-> FALSE, solar_rad_horiz_sfc |-> FALSE,
       solar_rad_sloped_sfc |-> FALSE, solar_rad_clear_sky |-> FALSE],
      [cloud_transmittance |-> FALSE, solar_rad_horiz_sfc |-> FALSE,
       solar_rad_sloped_sfc |-> TRUE, solar_rad_clear_sky |-> TRUE] }

\* the opening of every get_* method: `if csv_path:` makes the request a bulk
\* one, and a csv_path that is not absolute is made absolute
IsBulk(loc) == loc.csv_path # None

NoLocationGiven(loc) == ~IsBulk(loc) /\ (loc.latitude = None \/ loc.longitude = None)

LocatedLog(loc) ==
    IF IsBulk(loc)
    THEN << LogRecord("Processing bulk request with CSV: {csv_path}", loc.csv_path) >>
         \o (IF isabs(loc.csv_path) THEN <<>>
             ELSE << LogRecord("Converting CSV path to absolute path...", <<>>) >>)
    ELSE << LogRecord("Processing single coordinate request: {latitude}, {longitude}",
                      << loc.latitude[1], loc.longitude[1] >>) >>

\* the keyword arguments every get_* method hands to submit_coordinates: the
\* location, is_bulk_request and the settings given; the others are defaulted
LocatedArgs(loc, settings) ==
    settings @@
    [SubmitCall(IsBulk(loc)) EXCEPT
        !.latitude = IF loc.latitude = None THEN "None" ELSE loc.latitude[1],
        !.longitude = IF loc.longitude = None THEN "None" ELSE loc.longitude[1],
        !.csv_path = IF loc.csv_path = None THEN None
                     ELSE IF isabs(loc.csv_path) THEN loc.csv_path
                     ELSE abspath(loc.csv_path)]

\* the arguments get_daily_values hands to submit_coordinates
DailyArgs(loc, settings, sd, sm, sy, ed, em, ey) ==
    [LocatedArgs(loc, settings) EXCEPT
        !.is_monthly = FALSE, !.is_daily = TRUE,
        !.start_date = sd, !.start_month = sm, !.start_year = sy,
        !.end_date = ed, !.end_month = em, !.end_year = ey]

\* a get_* method raises before it calls submit_coordinates
GdvRaises(a, e, made, logged) ==
    /\ args' = a
    /\ raised' = e
    /\ calls' = made
    /\ log' = logged
    /\ pc' = "raised"
    /\ UNCHANGED << handles, reader_vars, row_count, driver >>

\* if start_year > end_year
YearOrderError(a) ==
    IF a.start_year > a.end_year
    THEN Some(ValueError("Start year must be less than or equal to end year."))
    ELSE None

\* if start_year == end_year and start_month > end_month
MonthOrderError(a) ==
    IF a.start_year = a.end_year /\ a.start_month > a.end_month
    THEN Some(ValueError("Start month must be less than or equal to end month when years are equal."))
    ELSE None

\* logger.warning(msg)
WarningRecord(msg) == [level |-> "WARNING", msg |-> msg, args |-> <<>>]

\* if end_year == datetime.datetime.now().year and is_within_past_6_months(
\* end_year, month, 1): the value of the condition, or the error it raises
Provisional(end_year, month) ==
    IF end_year # PresentYear THEN [raised |-> None, value |-> FALSE]
    ELSE is_within_past_6_months(end_year, month, 1)

NoMonth == [raised |-> None, value |-> FALSE]

\* the body shared by the six get_* methods: the location, the method's own
\* comparisons of start and end, the warning about provisional data, then
\* submit_coordinates
GetValues(name, loc, a, ordering, recent) ==
    LET made == Append(calls, Call(name, << loc.csv_path, loc.latitude, loc.longitude >>))
    IN IF NoLocationGiven(loc)
       THEN GdvRaises(a, Some(ValueError("Either CSV path or latitude/longitude must be provided.")),
                      made, log)
       ELSE IF ordering # None
       THEN GdvRaises(a, ordering, made, log \o LocatedLog(loc))
       ELSE IF recent.raised # None
       THEN GdvRaises(a, recent.raised, made, log \o LocatedLog(loc))
       ELSE EnterSubmitCoordinates(a, made,
               log \o LocatedLog(loc) \o
               (IF recent.value
                THEN << WarningRecord("Data within past 6 months is provisional and may be subject to revision.") >>
                ELSE <<>>))

\* the caller invokes get_30_year_monthly_normals
CallGet30YearMonthlyNormals ==
    /\ pc = "idle"
    /\ op' = "get_30_year_monthly_normals"
    /\ \E loc \in GdvLocations, settings \in GdvSettings, solar \in GdvSolarSettings :
         GetValues("get_30_year_monthly_normals", loc,
                   [LocatedArgs(loc, solar @@ settings) EXCEPT
                       !.is_monthly = FALSE, !.is_30_year_monthly = TRUE],
                   None, NoMonth)
    /\ UNCHANGED << fs, partitioner_vars, needs_partition, part_idx, retval, prev >>

\* the caller invokes get_30_year_daily_normals
CallGet30YearDailyNormals ==
    /\ pc = "idle"
    /\ op' = "get_30_year_daily_normals"
    /\ \E loc \in GdvLocations, settings \in GdvSettings :
         GetValues("get_30_year_daily_normals", loc,
                   [LocatedArgs(loc, settings) EXCEPT
                       !.is_monthly = FALSE, !.is_30_year_daily = TRUE],
                   None, NoMonth)
    /\ UNCHANGED << fs, partitioner_vars, needs_partition, part_idx, retval, prev >>

\* the caller invokes get_annual_values
CallGetAnnualValues ==
    /\ pc = "idle"
    /\ op' = "get_annual_values"
    /\ \E loc \in GdvLocations, settings \in GdvSettings, sy \in GdvYears, ey \in GdvYears :
         LET a == [LocatedArgs(loc, settings) EXCEPT
                      !.is_monthly = FALSE, !.is_annual = TRUE,
                      !.start_year = sy, !.end_year = ey]
         IN GetValues("get_annual_values", loc, a, YearOrderError(a), NoMonth)
    /\ UNCHANGED << fs, partitioner_vars, needs_partition, part_idx, retval, prev >>

\* the caller invokes get_single_month_values
CallGetSingleMonthValues ==
    /\ pc = "idle"
    /\ op' = "get_single_month_values"
    /\ \E loc \in GdvLocations, settings \in GdvSettings, month \in GdvMonths,
          sy \in GdvYears, ey \in GdvYears :
         LET a == [LocatedArgs(loc, settings) EXCEPT
                      !.is_monthly = FALSE, !.is_single_month = TRUE,
                      !.start_month = month, !.start_year = sy, !.end_year = ey]
         IN GetValues("get_single_month_values", loc, a, YearOrderError(a),
                      Provisional(ey, month))
    /\ UNCHANGED << fs, partitioner_vars, needs_partition, part_idx, retval, prev >>

\* the caller invokes get_monthly_values
CallGetMonthlyValues ==
    /\ pc = "idle"
    /\ op' = "get_monthly_values"
    /\ \E loc \in GdvLocations, settings \in GdvSettings, sm \in GdvMonths, sy \in GdvYears,
          em \in GdvMonths, ey \in GdvYears :
         LET a == [LocatedArgs(loc, settings) EXCEPT
                      !.start_month = sm, !.start_year = sy,
                      !.end_month = em, !.end_year = ey]
         IN GetValues("get_monthly_values", loc, a,
                      FirstRaised(<< YearOrderError(a), MonthOrderError(a) >>),
                      Provisional(ey, em))
    /\ UNCHANGED << fs, partitioner_vars, needs_partition, part_idx, retval, prev >>

\* the caller invokes get_daily_values
CallGetDailyValues ==
    /\ pc = "idle"
    /\ op' = "get_daily_values"
    /\ \E loc \in GdvLocations, settings \in GdvSettings, sd \in GdvDates, sm \in GdvMonths,
          sy \in GdvYears, ed \in GdvDates, em \in GdvMonths, ey \in GdvYears :
         LET a == DailyArgs(loc, settings, sd, sm, sy, ed, em, ey)
         IN GetValues("get_daily_values", loc, a, OrderingError(a), Provisional(ey, em))
    /\ UNCHANGED << fs, partitioner_vars, needs_partition, part_idx, retval, prev >>

\* the files of the daily requests: one that passes validation, one that fails
DailyFiles == { << LineGood >>, << LineBadFirst >> }

InitDaily ==
    /\ fs \in {[p \in {abspath(SourcePath)} |-> f] : f \in DailyFiles}
    /\ InitLocals

NextDaily ==
    \/ CallGet30YearMonthlyNormals
    \/ CallGet30YearDailyNormals
    \/ CallGetAnnualValues
    \/ CallGetSingleMonthValues
    \/ CallGetMonthlyValues
    \/ CallGetDailyValues
    \/ ValidateRow
    \/ ValidateReturn
    \/ SubmitUploadSource
    \/ SubmitUploadSourceFails
    \/ SubmitSettings
    \/ SubmitSettingsFails
    \/ SubmitSingle
    \/ SubmitSingleFails
    \/ SubmitBulk
    \/ SubmitBulkFails

SpecDaily == InitDaily /\ [][NextDaily]_vars

(***************************************************************************)
(* Vocabulary of the properties.                                           *)
(***************************************************************************)
\* the rows csv.reader yields for the file at a path
ReadRows(path) == csv_reader_rows(fs[path])

\* how many rows the file at a path holds
RowsIn(path) == Len(ReadRows(path))

SourceRows == ReadRows(SourcePath)
SourceCount == Len(SourceRows)

\* the source holds no row: the reader's first next() ends the iteration
SourceEmpty ==
    LET first == csv_reader_next(fs[SourcePath], 0, parse_reset)
    IN first.row = None /\ first.raised = None

RECURSIVE ConcatRows(_)
ConcatRows(paths) ==
    IF paths = <<>> THEN <<>> ELSE ReadRows(Head(paths)) \o ConcatRows(Tail(paths))

RECURSIVE SumRows(_)
SumRows(paths) ==
    IF paths = <<>> THEN 0 ELSE RowsIn(Head(paths)) + SumRows(Tail(paths))

Min(a, b) == IF a <= b THEN a ELSE b

\* _generate_partitions has just returned, to the caller or to submit_coordinates
PartitionerReturned ==
    \/ op = "_generate_partitions" /\ pc = "returned"
    \/ op = "submit_coordinates" /\ pc = "sc_settings" /\ needs_partition = Some(TRUE)

\* the list it returned
PartitionList == IF op = "_generate_partitions" THEN retval[1] ELSE partitions

\* _validate_csv has just returned, to the caller or to submit_coordinates
ValidatorReturned ==
    \/ op = "_validate_csv" /\ pc = "returned"
    \/ op = "submit_coordinates" /\ pc = "sc_branch"

\* the boolean it returned
ValidatorResult == IF op = "_validate_csv" THEN retval[1] ELSE needs_partition[1]

\* _validate_csv has raised
ValidatorRaised ==
    /\ pc = "raised"
    /\ op \in {"_validate_csv", "submit_coordinates"}
    /\ row_count > 0
    /\ needs_partition = None

\* a row as the data model wants it
RowWellFormed(row) ==
    /\ Len(row) = 3
    /\ is_float_string(row[1])
    /\ is_float_string(row[2])
    /\ Len(row[3]) <= 12

InvalidRows ==
    LET source == SourceRows IN {i \in 1..Len(source) : ~RowWellFormed(source[i])}

FirstInvalidRow == CHOOSE i \in InvalidRows : \A j \in InvalidRows : i <= j

\* the field a validation message names
FieldNamed(msg) ==
    CASE msg = "CSV row must have exactly 3 columns." -> "column count"
      [] msg = "First column must be a float coordinate." -> "first column"
      [] msg = "Second column must be a float coordinate." -> "second column"
      [] msg = "Third column must be a string of 12 or fewer characters." -> "third column"
      [] OTHER -> "none"

\* the first thing wrong with a malformed row
OffendingField(row) ==
    IF Len(row) # 3 THEN "column count"
    ELSE IF ~is_float_string(row[1]) THEN "first column"
    ELSE IF ~is_float_string(row[2]) THEN "second column"
    ELSE "third column"

UploadEvents == {i \in 1..Len(driver) : driver[i].call = "send_keys" /\ driver[i].arg[1] = "locations_file"}
SubmitEvents == {i \in 1..Len(driver) : driver[i].call = "click"
                    /\ driver[i].arg[1] \in {"submitdown_button", "submit_button", "download_button"}}

(***************************************************************************)
(* C1: when _generate_partitions returns, reading the partition files in   *)
(* the order of the returned list gives exactly the rows of the source, in *)
(* order, and the partitions' row counts sum to the source's row count.    *)
(***************************************************************************)
C1_RoundTrip ==
    PartitionerReturned =>
        /\ \A k \in 1..Len(PartitionList) : PartitionList[k] \in DOMAIN fs
        /\ ConcatRows(PartitionList) = SourceRows
        /\ SumRows(PartitionList) = SourceCount

\* a source split in two, the second partition holding one row
C1_Witness ==
    /\ PartitionerReturned
    /\ SourceCount = PartitionSize + 1
    /\ Len(PartitionList) = 2

(***************************************************************************)
(* C2: a source of n >= 1 rows gives ceil(n/500) partitions; all but the   *)
(* last hold exactly 500 rows and the last holds n mod 500 rows, or 500    *)
(* when n is a multiple of 500.                                            *)
(***************************************************************************)
C2_PartitionSizes ==
    (PartitionerReturned /\ SourceCount >= 1) =>
        LET n == SourceCount
            N == Len(PartitionList)
        IN /\ N = (n + 499) \div 500
           /\ \A k \in 1..(N - 1) : RowsIn(PartitionList[k]) = 500
           /\ RowsIn(PartitionList[N]) = (IF n % 500 = 0 THEN 500 ELSE n % 500)
           /\ \A k \in 1..N : RowsIn(PartitionList[k]) \in 1..500

\* 1000 rows give 500 + 500
C2_Witness ==
    /\ PartitionerReturned
    /\ SourceCount = 1000
    /\ Len(PartitionList) = 2
    /\ RowsIn(PartitionList[2]) = 500

(***************************************************************************)
(* C3: the k-th returned path is {source_path}_{k}.csv, k = 1..N, and it   *)
(* names the file holding source rows 500(k-1)+1 .. min(500k, n).          *)
(***************************************************************************)
C3_PartitionNames ==
    PartitionerReturned =>
        \A k \in 1..Len(PartitionList) :
            /\ PartitionList[k] = SourcePath \o <<"_">> \o DecChars(k) \o <<".", "c", "s", "v">>
            /\ ReadRows(PartitionList[k])
                 = SubSeq(SourceRows, 500 * (k - 1) + 1, Min(500 * k, SourceCount))

\* 1001 rows: three paths
C3_Witness ==
    /\ PartitionerReturned
    /\ SourceCount = 1001
    /\ Len(PartitionList) = 3
    /\ PartitionList[3] = <<"c", "o", "o", "r", "d", "s", ".", "c", "s", "v", "_", "3", ".", "c", "s", "v">>

(***************************************************************************)
(* C4: when the validator accepts a file, its result is true exactly when  *)
(* the file has more than 500 rows.                                        *)
(***************************************************************************)
C4_NeedsPartitionIffOver500 ==
    ValidatorReturned => (ValidatorResult = (SourceCount > 500))

\* exactly 500 rows: accepted, and no partitioning
C4_Witness ==
    /\ ValidatorReturned
    /\ SourceCount = 500
    /\ ValidatorResult = FALSE

(***************************************************************************)
(* C5: on success the validator returns to its caller the exact total      *)
(* number of rows of the file together with the needs-partition boolean.   *)
(* _validate_csv returns the boolean alone (lines 874-879); the count is   *)
(* only passed to logger.info (line 873).                                  *)
(***************************************************************************)
C5_ReturnsCountAndFlag ==
    (op = "_validate_csv" /\ pc = "returned") =>
        /\ Len(retval) = 2
        /\ retval[1] = SourceCount
        /\ retval[2] = (SourceCount > 500)

(***************************************************************************)
(* C6: the validator raises if and only if some row does not have exactly  *)
(* 3 fields, or has a first or second field that is not a float, or has a  *)
(* third field longer than 12 characters.                                  *)
(***************************************************************************)
C6_RaisesIffMalformed ==
    /\ ValidatorRaised => InvalidRows # {}
    /\ ValidatorReturned => InvalidRows = {}

\* a file whose label has exactly 12 characters is accepted
C6_Witness ==
    /\ ValidatorReturned
    /\ SourceCount >= 1
    /\ \E i \in 1..SourceCount : Len(SourceRows[i]) = 3 /\ Len(SourceRows[i][3]) = 12

(***************************************************************************)
(* C7: every error of the validator identifies the 1-indexed number of the *)
(* offending row and the offending field.                                  *)
(***************************************************************************)
C7_ErrorNamesRowAndField ==
    ValidatorRaised =>
        /\ FieldNamed(raised[1].msg) = OffendingField(SourceRows[row_count])
        /\ row_count \in Range(raised[1].args)

(***************************************************************************)
(* C8: validation is fail-fast: the error is the one of the first invalid  *)
(* row, the reader has yielded no row after it, and nothing is returned.   *)
(***************************************************************************)
C8_FailFast ==
    ValidatorRaised =>
        /\ InvalidRows # {}
        /\ row_count = FirstInvalidRow
        /\ reader = FirstInvalidRow
        /\ FieldNamed(raised[1].msg) = OffendingField(SourceRows[FirstInvalidRow])
        /\ retval = <<>>
        /\ needs_partition = None

\* the first of two invalid rows raises; the second is never read
C8_Witness ==
    /\ ValidatorRaised
    /\ row_count = 1
    /\ Cardinality(InvalidRows) = 2
    /\ SourceCount = 2

(***************************************************************************)
(* C9: in a bulk submit_coordinates call a CSV validation error reaches    *)
(* the caller as raised, and by then no partition file exists, nothing was *)
(* uploaded, no date or data setting was applied and no form submitted.    *)
(***************************************************************************)
C9_ValidationErrorAborts ==
    (op = "submit_coordinates" /\ ValidatorRaised) =>
        /\ raised = RowError(SourceRows[row_count])
        /\ DOMAIN fs = {SourcePath}
        /\ driver = << Event("get", <<BULK_URL>>) >>
        /\ partitions = <<>>
        /\ retval = <<>>

\* a bulk request whose file is over the limit and malformed past it
C9_Witness ==
    /\ op = "submit_coordinates"
    /\ ValidatorRaised
    /\ row_count = RowLimit + 1

(***************************************************************************)
(* C10: in a bulk submit_coordinates call the partitioner runs if and only *)
(* if the validator reported needs-partition; for a source of at most 500  *)
(* rows no derived file is written and the file uploaded is the source     *)
(* (stated as: that holds, or else the source the step started from has    *)
(* over 500 rows; it is checked after every step that changes the set of   *)
(* files or what the driver has received, and on return).                  *)
(***************************************************************************)
\* storage holds the source alone and every upload so far is the source's
SourceUploadedOnly ==
    /\ DOMAIN fs = {SourcePath}
    /\ \A i \in UploadEvents : driver[i].arg = <<"locations_file">> \o SourcePath
    /\ pc = "returned" => Cardinality(UploadEvents) = 1

C10_PartitionOnlyOver500 ==
    /\ []((op = "submit_coordinates" /\ args.is_bulk_request) =>
            /\ pc \in {"partition", "flush", "flush_last", "write", "write_last"}
                  => needs_partition = Some(TRUE)
            /\ (pc \in {"sc_settings", "sc_submit", "sc_parts", "sc_part_submit",
                        "sc_part_remove", "returned"}
                  /\ needs_partition = Some(TRUE)) => partition_number >= 1
            /\ needs_partition = Some(FALSE) => partition_number = 0)
    /\ [][(/\ op' = "submit_coordinates"
           /\ args'.is_bulk_request
           /\ \/ DOMAIN fs' # DOMAIN fs
              \/ driver' # driver
              \/ pc' = "returned") =>
             (SourceUploadedOnly' \/ SourceCount > 500)]_vars

\* a bulk request of exactly 500 rows has completed
C10_Witness ==
    /\ op = "submit_coordinates"
    /\ args.is_bulk_request
    /\ pc = "returned"
    /\ SourceCount = 500
    /\ Cardinality(UploadEvents) = 1

(***************************************************************************)
(* Vocabulary of the claims about the partitioned request.                 *)
(***************************************************************************)
\* a bulk request whose validator answered that partitioning is needed
PartitionedSubmit == op = "submit_coordinates" /\ needs_partition = Some(TRUE)

\* the partition paths of the source, from its row count
PartPaths(n) ==
    [k \in 1..((n + PartitionSize - 1) \div PartitionSize) |->
        SourcePath \o <<"_">> \o DecChars(k) \o <<".", "c", "s", "v">>]

ExpectedParts == PartPaths(SourceCount)

\* the uploads and bulk submits the form driver has received, in order
IsFormEvent(e) ==
    \/ e.call = "send_keys" /\ e.arg[1] = "locations_file"
    \/ e.call = "click" /\ e.arg[1] = "submitdown_button"

FormEvents == SelectSeq(driver, IsFormEvent)

\* upload(p1), submit, ..., upload(pN), submit
AlternatingEvents(paths) ==
    Flatten([k \in 1..Len(paths) |->
        << Event("send_keys", << "locations_file" >> \o paths[k]),
           Event("click", << "submitdown_button" >>) >>])

IsPrefix(s, t) == s = <<>> \/ (Len(s) <= Len(t) /\ s = SubSeq(t, 1, Len(s)))

\* the bytes of s are the beginning of the bytes of t: the characters of t in
\* order, the last one possibly cut after some of its bytes
IsBytePrefix(s, t) ==
    \/ s = <<>>
    \/ /\ Len(s) <= Len(t)
       /\ SubSeq(s, 1, Len(s) - 1) = SubSeq(t, 1, Len(s) - 1)
       /\ \/ s[Len(s)] = t[Len(s)]
          \/ \E b \in 1..(ByteLen(t[Len(s)]) - 1) : s[Len(s)] = PartOfChar(t[Len(s)], b)

\* the text of lines is the beginning of the text of full
IsTextPrefix(lines, full) ==
    /\ Len(lines) <= Len(full)
    /\ \A i \in 1..(Len(lines) - 1) : lines[i] = full[i]
    /\ Len(lines) >= 1 => IsBytePrefix(lines[Len(lines)], full[Len(lines)])

CallsNamed(names) == SelectSeq(calls, LAMBDA c : c.name \in names)

CountCalls(name) == Len(CallsNamed({name}))

\* upload(p1), submit, remove(p1), ..., upload(pN), submit, remove(pN)
UploadSubmitRemove(paths) ==
    Flatten([k \in 1..Len(paths) |->
        << Call("_upload_csv", paths[k]),
           Call("_submit_and_download_bulk", <<>>),
           Call("os.remove", paths[k]) >>])

(***************************************************************************)
(* C11: in a partitioned bulk request the form driver receives upload(p1), *)
(* submit, upload(p2), submit, ..., upload(pN), submit and nothing else of *)
(* the kind: at every moment what it has received is a prefix of that      *)
(* sequence, on return it is the whole of it (N uploads, N bulk submits,   *)
(* in partition order), and the source file is never uploaded.             *)
(***************************************************************************)
C11_UploadSubmitPerPartition ==
    PartitionedSubmit =>
        LET parts == ExpectedParts IN
        /\ IsPrefix(FormEvents, AlternatingEvents(parts))
        /\ \A i \in 1..Len(calls) :
              calls[i].name = "_upload_csv" => calls[i].arg # SourcePath
        /\ pc = "returned" =>
              /\ FormEvents = AlternatingEvents(parts)
              /\ CountCalls("_upload_csv") = Len(parts)
              /\ CountCalls("_submit_and_download_bulk") = Len(parts)

\* a request over 1001 rows has returned after three uploads and three submits
C11_Witness ==
    /\ PartitionedSubmit
    /\ pc = "returned"
    /\ SourceCount = 2 * PartitionSize + 1
    /\ Len(FormEvents) = 6
    /\ CountCalls("_upload_csv") = 3

(***************************************************************************)
(* C12: in a partitioned bulk request each partition file is removed only  *)
(* after its own submit has returned and before the next partition is      *)
(* uploaded; on return every partition file is gone; the source file       *)
(* exists with its contents unchanged throughout.                          *)
(***************************************************************************)
C12_PartsRemovedSourceKept ==
    /\ [](PartitionedSubmit =>
            LET parts == ExpectedParts IN
            /\ IsPrefix(CallsNamed({"_upload_csv", "_submit_and_download_bulk", "os.remove"}),
                        UploadSubmitRemove(parts))
            /\ pc \in {"sc_parts", "sc_part_submit", "sc_part_remove", "returned"} =>
                  \A k \in 1..Len(partitions) :
                      partitions[k] \in DOMAIN fs <=> k >= part_idx
            /\ pc = "returned" =>
                  /\ part_idx = Len(parts) + 1
                  /\ CountCalls("os.remove") = Len(parts)
                  /\ DOMAIN fs = {SourcePath})
    /\ [][op' = "submit_coordinates" =>
            SourcePath \in DOMAIN fs' /\ fs'[SourcePath] = fs[SourcePath]]_vars

\* a request over 1000 rows has returned and only the source is in storage
C12_Witness ==
    /\ PartitionedSubmit
    /\ pc = "returned"
    /\ SourceCount = 2 * PartitionSize
    /\ CountCalls("os.remove") = 2
    /\ DOMAIN fs = {SourcePath}

(***************************************************************************)
(* Vocabulary of the claims about storage and file handles.                *)
(***************************************************************************)
PartitionerPcs == {"partition", "flush", "flush_last", "write", "write_last"}

\* a step taken inside _validate_csv, its call and its exit included
ValidatorStep == op' = "_validate_csv" \/ pc = "validate" \/ pc' = "validate"

\* a step taken inside _generate_partitions, its call and its exit included
PartitionerStep ==
    op' = "_generate_partitions" \/ pc \in PartitionerPcs \/ pc' \in PartitionerPcs

\* the paths created or given new contents by the step
Touched == {p \in DOMAIN fs' : p \notin DOMAIN fs \/ fs'[p] # fs[p]}

\* _generate_partitions ended on an I/O error
PartitionerFailed ==
    /\ pc = "raised"
    /\ raised # None
    /\ raised[1].type = "OSError"
    /\ op = "_generate_partitions" \/ PartitionedSubmit

(***************************************************************************)
(* C13: no step of the validator changes storage; a step of the            *)
(* partitioner deletes no file and creates or overwrites only derived      *)
(* paths of its list, never the source; whenever the list changes it holds *)
(* only the partition paths the source's row count calls for.              *)
(***************************************************************************)
C13_StorageEffects ==
    [][/\ ValidatorStep => fs' = fs
       /\ PartitionerStep =>
            /\ \A p \in DOMAIN fs : p \in DOMAIN fs'
            /\ \A p \in Touched :
                  /\ p # SourcePath
                  /\ p \in Range(partitions')
            /\ partitions' # partitions =>
                  \A p \in Range(partitions') : p \in Range(ExpectedParts)]_vars

\* a second run of the partitioner has just truncated the first partition
\* file that the first run left
C13_Witness ==
    /\ op = "_generate_partitions"
    /\ prev # <<>>
    /\ pc = "write"
    /\ Len(partitions) = 1
    /\ partitions[1] \in DOMAIN prev[1].fs
    /\ fs[partitions[1]] = <<>>

(***************************************************************************)
(* C14: a second run of the partitioner on the same source returns the     *)
(* same list as the first and leaves the same file contents; a second run  *)
(* of the validator returns the same result as the first.                  *)
(***************************************************************************)
C14_Idempotent ==
    (pc = "returned" /\ prev # <<>>) =>
        /\ retval = prev[Len(prev)].retval
        /\ fs = prev[Len(prev)].fs
        /\ op = "_generate_partitions" =>
              \A p \in Range(retval[1]) : fs[p] = prev[Len(prev)].fs[p]

\* the partitioner has returned a second time on a source of 1001 rows
C14_Witness ==
    /\ op = "_generate_partitions"
    /\ pc = "returned"
    /\ prev # <<>>
    /\ Len(retval[1]) = 3
    /\ Len(fs[retval[1][3]]) = 1

(***************************************************************************)
(* C15: when opening the source or opening or writing partition k fails,   *)
(* the error reaches the caller and no list is returned; partition k was   *)
(* attempted once; partitions 1..k-1 are in storage with their 500 rows    *)
(* each, what was written of partition k stays (the beginning of its       *)
(* bytes, possibly cut inside a line or inside a character), the source is *)
(* untouched and nothing has been uploaded.  Stated in three parts: what   *)
(* holds when partition k is about to be opened or written; what the       *)
(* failing step leaves as it was; what holds once the error is raised.     *)
(***************************************************************************)
\* partition k = Len(partitions) is about to be opened or written
AtPartition == pc \in {"flush", "flush_last", "write", "write_last"}

\* the step on which the I/O error of the partitioner is raised
PartitionerFails == pc # "raised" /\ PartitionerFailed'

C15_IOErrorPropagates ==
    /\ [](AtPartition =>
            LET k == Len(partitions)
                source == SourceRows
            IN /\ partition_number = k
               /\ partitions = SubSeq(PartPaths(Len(source)), 1, k)
               /\ rows = SubSeq(source, PartitionSize * (k - 1) + 1,
                                Min(PartitionSize * k, Len(source)))
               /\ \A j \in 1..(k - 1) :
                     /\ partitions[j] \in DOMAIN fs
                     /\ ReadRows(partitions[j]) =
                           SubSeq(source, PartitionSize * (j - 1) + 1, PartitionSize * j))
    /\ [][PartitionerFails =>
            /\ rows' = rows
            /\ partitions' = partitions
            /\ partition_number' = partition_number
            /\ fs'[SourcePath] = fs[SourcePath]
            /\ \A p \in DOMAIN fs :
                  /\ p \in DOMAIN fs'
                  /\ p # raised'[1].args => fs'[p] = fs[p]]_vars
    /\ [](PartitionerFailed =>
            LET k == Len(partitions) IN
            /\ retval = <<>>
            /\ SourcePath \in DOMAIN fs
            /\ FormEvents = <<>>
            /\ k = 0 <=> raised[1].args = SourcePath
            /\ k >= 1 =>
                  /\ raised[1].args = partitions[k]
                  /\ partition_number = k
                  /\ partitions[k] \in DOMAIN fs =>
                        LET written == fs[partitions[k]]
                            first == SubSeq(rows, 1, Min(Len(rows), Len(written)))
                        IN IsTextPrefix(written, csv_writerows(first)))

\* the write of the second partition failed in the middle of its third line;
\* the first partition is complete
C15_Witness ==
    /\ PartitionerFailed
    /\ raised[1].msg = "write"
    /\ Len(partitions) = 2
    /\ RowsIn(partitions[1]) = PartitionSize
    /\ Len(fs[partitions[2]]) = 3
    /\ ~IsTerminated(fs[partitions[2]][3])

(***************************************************************************)
(* C16: at most one handle on the source and at most one handle on a       *)
(* partition file are open at any time; the source handle is open only     *)
(* inside the validator or the partitioner, the partition handle only      *)
(* while that partition is written; after a return or a raise no handle    *)
(* is open.                                                                *)
(***************************************************************************)
C16_HandlesClosed ==
    /\ Cardinality({h \in handles : h.mode = "r"}) <= 1
    /\ Cardinality({h \in handles : h.mode = "w"}) <= 1
    /\ \A h \in handles :
          /\ h.mode = "r" => h.path = args.csv_path /\ pc \in {"validate"} \cup PartitionerPcs
          /\ h.mode = "w" => /\ pc \in {"write", "write_last"}
                             /\ h.path = partitions[Len(partitions)]
    /\ pc \notin {"validate"} \cup PartitionerPcs => handles = {}

\* the partitioner raised while both handles were open, and none is open now
C16_Witness ==
    /\ op = "_generate_partitions"
    /\ pc = "raised"
    /\ raised[1].msg = "write"
    /\ Len(partitions) = 1
    /\ handles = {}

(***************************************************************************)
(* C17: a request that returns has validated its inputs, set the date      *)
(* range and set the data settings exactly once each; a non-bulk request   *)
(* has set the coordinates once and called _submit_and_download once, with *)
(* no upload and no bulk submit; a bulk request has never set coordinates  *)
(* nor called _submit_and_download, and on a CSV of at most 500 rows it    *)
(* has uploaded once (the source) and submitted in bulk once.              *)
(***************************************************************************)
C17_Routing ==
    (op = "submit_coordinates" /\ pc = "returned") =>
        /\ CountCalls("_validate_inputs") = 1
        /\ CountCalls("_set_date_range") = 1
        /\ CountCalls("_set_data_settings") = 1
        /\ ~args.is_bulk_request =>
              /\ CountCalls("_set_coordinates") = 1
              /\ CountCalls("_submit_and_download") = 1
              /\ CountCalls("_upload_csv") = 0
              /\ CountCalls("_submit_and_download_bulk") = 0
              /\ CountCalls("_validate_csv") = 0
        /\ args.is_bulk_request =>
              /\ CountCalls("_set_coordinates") = 0
              /\ CountCalls("_submit_and_download") = 0
              /\ CountCalls("_validate_csv") = 1
              /\ SourceCount <= RowLimit =>
                    /\ CallsNamed({"_upload_csv"}) = << Call("_upload_csv", SourcePath) >>
                    /\ CountCalls("_submit_and_download_bulk") = 1
                    /\ CountCalls("_generate_partitions") = 0

\* a bulk request on a CSV of exactly 500 rows has returned
C17_Witness ==
    /\ op = "submit_coordinates"
    /\ pc = "returned"
    /\ args.is_bulk_request
    /\ SourceCount = RowLimit
    /\ CountCalls("_upload_csv") = 1
    /\ CountCalls("_submit_and_download_bulk") = 1

(***************************************************************************)
(* Vocabulary of the claims about the date checks.                         *)
(***************************************************************************)
\* a leap year of the Gregorian calendar
IsLeapYear(year) == (year % 4 = 0 /\ year % 100 # 0) \/ year % 400 = 0

\* the last day of the month
MonthLimit(month, year) ==
    IF month = 2 THEN (IF IsLeapYear(year) THEN 29 ELSE 28)
    ELSE IF month \in {4, 6, 9, 11} THEN 30
    ELSE 31

\* the call of the named function has ended, by a return or by a raise
Ended(name) == op = name /\ pc \in {"returned", "raised"}

MonthError == "Month must be between 1 and 12."

(***************************************************************************)
(* C18: check_dates(date, month, year) raises ValueError if and only if    *)
(* date < 1 or date is above the month's limit (29 for February of a leap  *)
(* year, 28 for February otherwise, 30 for months 4, 6, 9, 11, 31 for      *)
(* every other month), and returns None otherwise.                         *)
(***************************************************************************)
C18_CheckDatesIff ==
    Ended("check_dates") =>
        /\ pc = "raised" <=>
              \/ args.start_date < 1
              \/ args.start_date > MonthLimit(args.start_month, args.start_year)
        /\ pc = "raised" => raised[1].type = "ValueError"
        /\ pc = "returned" => retval = << "None" >>

(***************************************************************************)
(* C19: _validate_inputs raises ValueError if and only if the start or the *)
(* end month is outside 1..12, or the start or the end year is outside     *)
(* 1895..current year, or the start or the end date fails check_dates for  *)
(* its month and year; otherwise it returns None.                          *)
(***************************************************************************)
C19_ValidateInputsIff ==
    Ended("_validate_inputs") =>
        /\ pc = "raised" <=>
              \/ args.start_month \notin 1..12
              \/ args.end_month \notin 1..12
              \/ args.start_year \notin 1895..PresentYear
              \/ args.end_year \notin 1895..PresentYear
              \/ check_dates(args.start_date, args.start_month, args.start_year) # None
              \/ check_dates(args.end_date, args.end_month, args.end_year) # None
        /\ pc = "raised" => raised[1].type = "ValueError"
        /\ pc = "returned" => retval = << "None" >>

\* only the end year is out of range, and the call raised the year error
C19_Witness ==
    /\ Ended("_validate_inputs")
    /\ pc = "raised"
    /\ args.start_date = 1 /\ args.start_month = 1 /\ args.start_year = 2020
    /\ args.end_date = 31 /\ args.end_month = 12 /\ args.end_year = PresentYear + 1
    /\ raised[1].msg = "Year must be between 1895 and {present}."

(***************************************************************************)
(* C20: whenever the start month or the end month passed to                *)
(* _validate_inputs is outside 1..12, the error raised is "Month must be   *)
(* between 1 and 12.", whatever the dates and the years.                   *)
(***************************************************************************)
C20_MonthErrorWhateverDates ==
    (/\ Ended("_validate_inputs")
     /\ args.start_month \notin 1..12 \/ args.end_month \notin 1..12) =>
        /\ pc = "raised"
        /\ raised[1].msg = MonthError

(***************************************************************************)
(* Vocabulary of the claims about the form-filling methods.                *)
(***************************************************************************)
\* the mode of a call, by the priority of the flags
SelectedMode(a) ==
    IF a.is_30_year_monthly THEN "30_year_monthly"
    ELSE IF a.is_30_year_daily THEN "30_year_daily"
    ELSE IF a.is_annual THEN "annual"
    ELSE IF a.is_single_month THEN "single_month"
    ELSE IF a.is_daily THEN "daily"
    ELSE IF a.is_monthly THEN "monthly"
    ELSE "none"

\* the time-period button of a mode
ModeButton(mode) ==
    CASE mode = "30_year_monthly" -> "tper_monthly_normals"
      [] mode = "30_year_daily" -> "tper_daily_normals"
      [] mode = "annual" -> "tper_yearly"
      [] mode = "single_month" -> "tper_onemonth"
      [] mode = "daily" -> "tper_daily"
      [] mode = "monthly" -> "tper_monthly"

\* the number of dropdown selections of a mode
SelectionsFor(mode) ==
    CASE mode \in {"30_year_monthly", "30_year_daily"} -> 0
      [] mode = "annual" -> 2
      [] mode = "single_month" -> 3
      [] mode = "monthly" -> 4
      [] mode = "daily" -> 6

\* the call ended because an element of the page never came
DriverGaveUp == raised # None /\ raised[1].type = "TimeoutException"

Clicks == SelectSeq(driver, LAMBDA e : e.call = "click")
Selections == SelectSeq(driver, LAMBDA e : e.call = "select")

\* the dropdowns a selection was made in
SelectedIds == {Selections[i].arg[1] : i \in 1..Len(Selections)}

\* the variables the portal has switched on before any click
PortalDefaultOn == {"precipitation", "mean_temp"}

\* the checkbox of a variable
CheckboxOf(v) ==
    CASE v = "precipitation" -> "cvar_ppt"
      [] v = "mean_temp" -> "cvar_tmean"
      [] v = "min_temp" -> "cvar_tmin"
      [] v = "max_temp" -> "cvar_tmax"
      [] v = "min_vpd" -> "cvar_vpdmin"
      [] v = "max_vpd" -> "cvar_vpdmax"
      [] v = "mean_dewpoint_temp" -> "cvar_tdmean"
      [] v = "cloud_transmittance" -> "cvar_soltrans"
      [] v = "solar_rad_horiz_sfc" -> "cvar_soltotal"
      [] v = "solar_rad_sloped_sfc" -> "cvar_solslope"
      [] v = "solar_rad_clear_sky" -> "cvar_solclear"

\* the variables whose requested value is not the portal's default
Inverted(a) == {v \in DataVars : a[v] # (v \in PortalDefaultOn)}

(***************************************************************************)
(* C21: a call of _set_date_range with at least one mode flag set, on a    *)
(* page where every element comes, clicks                                  *)
(* exactly one time-period button, that of the mode chosen by the priority *)
(* 30-year monthly, 30-year daily, annual, single month, daily, monthly,   *)
(* and makes 0 dropdown selections for either normals mode, 2 for annual,  *)
(* 3 for single month, 4 for monthly and 6 for daily.                      *)
(***************************************************************************)
C21_OneButtonAndSelections ==
    (Ended("_set_date_range") /\ SelectedMode(args) # "none" /\ ~DriverGaveUp) =>
        /\ Clicks = << Event("click", << ModeButton(SelectedMode(args)) >>) >>
        /\ Len(Selections) = SelectionsFor(SelectedMode(args))

(***************************************************************************)
(* C22: on a page where every checkbox comes, _set_data_settings clicks    *)
(* exactly the checkboxes of the variables whose requested value differs   *)
(* from the portal default (precipitation and mean_temp on, the other nine *)
(* off), each once, and does nothing else: no click for the defaults,      *)
(* eleven when all are inverted.                                           *)
(***************************************************************************)
C22_ClicksInvertedOnly ==
    (Ended("_set_data_settings") /\ ~DriverGaveUp) =>
        /\ pc = "returned"
        /\ driver = Clicks
        /\ {Clicks[i].arg[1] : i \in 1..Len(Clicks)} = {CheckboxOf(v) : v \in Inverted(args)}
        /\ Len(Clicks) = Cardinality(Inverted(args))
        /\ Inverted(args) = {} => driver = <<>>
        /\ Inverted(args) = DataVars => Len(driver) = 11

\* every one of the eleven variables is inverted and eleven clicks were made
C22_Witness ==
    /\ Ended("_set_data_settings")
    /\ pc = "returned"
    /\ Inverted(args) = DataVars
    /\ ~args.precipitation /\ ~args.mean_temp /\ args.solar_rad_clear_sky
    /\ Len(Clicks) = 11

(***************************************************************************)
(* C25: for every combination of the six mode flags _set_date_range, on a  *)
(* page where every element comes,                                         *)
(* completes (it only uses element ids it has assigned), and whenever the  *)
(* daily branch is the one taken it sets both the start date and the end   *)
(* date dropdowns.                                                         *)
(***************************************************************************)
C25_CompletesAndSetsDates ==
    (Ended("_set_date_range") /\ ~DriverGaveUp) =>
        /\ pc = "returned"
        /\ DateBranch(args) = "daily" =>
              {"tper_daily_start_date", "tper_daily_end_date"} \subseteq SelectedIds

(***************************************************************************)
(* C23: when the upload or the submit of partition k fails in a            *)
(* partitioned bulk request, the error reaches the caller and the loop     *)
(* stops: partitions 1..k-1 have been removed, partitions k..N are still   *)
(* in storage with their rows, and no partition after k has been uploaded  *)
(* or submitted.                                                           *)
(***************************************************************************)
C23_DriverErrorStopsLoop ==
    (PartitionedSubmit /\ DriverGaveUp /\ part_idx >= 1) =>
        LET k == part_idx
            n == Len(ExpectedParts)
            uploads == CallsNamed({"_upload_csv"})
        IN /\ retval = <<>>
           /\ k \in 1..n
           /\ partitions = ExpectedParts
           /\ raised[1].args = partitions[k]
           /\ \A j \in 1..(k - 1) : partitions[j] \notin DOMAIN fs
           /\ \A j \in k..n :
                 /\ partitions[j] \in DOMAIN fs
                 /\ ReadRows(partitions[j]) =
                       SubSeq(SourceRows, PartitionSize * (j - 1) + 1,
                              Min(PartitionSize * j, SourceCount))
           /\ uploads = [j \in 1..k |-> Call("_upload_csv", partitions[j])]
           /\ CountCalls("_submit_and_download_bulk") \in {k - 1, k}
           /\ CountCalls("os.remove") = k - 1
           /\ Len(FormEvents) \in {2 * (k - 1), 2 * (k - 1) + 1}

\* the submit of the second of three partitions failed
C23_Witness ==
    /\ PartitionedSubmit
    /\ pc = "raised"
    /\ raised[1].type = "TimeoutException"
    /\ raised[1].msg = "submitdown_button"
    /\ part_idx = 2
    /\ Len(partitions) = 3
    /\ DOMAIN fs = {SourcePath, partitions[2], partitions[3]}

(***************************************************************************)
(* C24: for every year that check_years accepts (1895 up to the current    *)
(* year), check_dates accepts 29 February of that year only if the year is *)
(* a leap year of the Gregorian calendar.                                  *)
(***************************************************************************)
C24_Feb29OnlyInLeapYears ==
    (/\ Ended("check_dates")
     /\ check_years(args.start_year) = None
     /\ args.start_month = 2
     /\ args.start_date = 29
     /\ pc = "returned") => IsLeapYear(args.start_year)

(***************************************************************************)
(* C27: on an empty source file (0 rows) the validator, once the file is   *)
(* open, returns needs-partition false and raises nothing, and             *)
(* _generate_partitions returns an empty list and creates no file.         *)
(***************************************************************************)
C27_EmptySource ==
    SourceEmpty =>
        /\ (op = "_validate_csv" /\ pc \in {"returned", "raised"}) =>
              \/ pc = "returned" /\ retval = << FALSE >>
              \/ pc = "raised" /\ raised[1].type = "OSError"
        /\ op = "submit_coordinates" => needs_partition \in {None, Some(FALSE)}
        /\ op = "_generate_partitions" =>
              /\ DOMAIN fs = {SourcePath}
              /\ partitions = <<>>
              /\ pc = "returned" => retval = << <<>> >>
              /\ pc = "raised" => raised[1].type = "OSError"

\* the partitioner has returned the empty list on the empty source
C27_Witness ==
    /\ SourceEmpty
    /\ SourceCount = 0
    /\ op = "_generate_partitions"
    /\ pc = "returned"
    /\ retval = << <<>> >>
    /\ DOMAIN fs = {SourcePath}

(***************************************************************************)
(* C28: csv_test.validate_csv and PrismSession._validate_csv are           *)
(* equivalent: run on the same readable file, the copy raises exactly when *)
(* the method raised, with the same error, and otherwise returns the same  *)
(* boolean.                                                                *)
(***************************************************************************)
C28_CopiesEquivalent ==
    (/\ op = "csv_test.validate_csv"
     /\ prev[1].raised = None \/ prev[1].raised[1].type # "OSError"
     /\ raised = None \/ raised[1].type # "OSError") =>
        /\ raised = prev[1].raised
        /\ retval = prev[1].retval

(***************************************************************************)
(* Vocabulary of the claims about get_daily_values.                        *)
(***************************************************************************)
\* the location arguments of the call: csv_path, latitude, longitude
GdvGiven == calls[1].arg

\* neither a csv_path nor both latitude and longitude
NoLocation == GdvGiven[1] = None /\ (GdvGiven[2] = None \/ GdvGiven[3] = None)

\* (start_year, start_month, start_date) is later than the end, lexicographically
StartAfterEnd ==
    \/ args.start_year > args.end_year
    \/ /\ args.start_year = args.end_year
       /\ \/ args.start_month > args.end_month
          \/ args.start_month = args.end_month /\ args.start_date > args.end_date

\* the messages of the errors get_daily_values raises itself
OwnMessages ==
    { "Either CSV path or latitude/longitude must be provided.",
      "Start year must be less than or equal to end year.",
      "Start month must be less than or equal to end month when years are equal.",
      "Start date must be less than or equal to end date when months and years are equal." }

RaisedValueError == pc = "raised" /\ raised[1].type = "ValueError"

(***************************************************************************)
(* C26 as stated: get_daily_values raises ValueError exactly when the      *)
(* start is lexicographically later than the end or no location is given,  *)
(* and then before any navigation, upload or submission.                   *)
(***************************************************************************)
C26_ValueErrorExactlyWhen ==
    Ended("get_daily_values") =>
        /\ RaisedValueError <=> (NoLocation \/ StartAfterEnd)
        /\ (NoLocation \/ StartAfterEnd) => driver = <<>>

(***************************************************************************)
(* C26 amended: get_daily_values raises one of its own four errors (no     *)
(* location, start year, start month, start date) exactly when no location *)
(* is given or the start is lexicographically later than the end, and then *)
(* before any call on the driver and before submit_coordinates is entered. *)
(* Every other ValueError comes from the checks that follow: before any    *)
(* navigation when the dates are rejected, after the bulk page has been    *)
(* opened when the CSV is rejected.                                        *)
(***************************************************************************)
C26_OwnErrorsExactlyWhen ==
    Ended("get_daily_values") =>
        LET own == RaisedValueError /\ raised[1].msg \in OwnMessages IN
        /\ own <=> (NoLocation \/ StartAfterEnd)
        /\ own => driver = <<>> /\ Len(calls) = 1
        /\ (RaisedValueError /\ ~own) =>
              \/ driver = <<>> /\ CountCalls("_validate_csv") = 0
              \/ /\ args.is_bulk_request
                 /\ driver = BulkOpening(args)
                 /\ CountCalls("_validate_csv") = 1
                 /\ row_count > 0

\* a bulk request whose start date is after its end date in the same month
C26_Witness ==
    /\ Ended("get_daily_values")
    /\ GdvGiven[1] = SourcePath
    /\ args.start_year = args.end_year /\ args.start_month = args.end_month
    /\ args.start_date = 31 /\ args.end_date = 1
    /\ raised[1].msg = "Start date must be less than or equal to end date when months and years are equal."
    /\ driver = <<>>

====
